---- MODULE Spec2Model ----
(***************************************************************************)
(* Generation orchestration layer of gentextAPI: the statement generator   *)
(* factory (two versions), the local-model adapter with its Candidate      *)
(* Filter, the remote-API adapter, and the HTTP handler that fronts them.  *)
(*                                                                         *)
(* Text is modelled as a sequence of tokens (words, "." and " ").  The     *)
(* pretrained models (generation pipeline, spaCy, sentence encoder) and    *)
(* the remote HTTP API are oracles: their answers are inputs drawn from    *)
(* small sets, everything the repository's code does with the answers is   *)
(* computed.                                                               *)
(***************************************************************************)
EXTENDS Integers, Sequences, FiniteSets, TLC

(* ---------------------------- bounds ----------------------------------- *)
MaxPairs == 2      \* longest batch explored (the API admits up to 20)
MaxN     == 2      \* largest requested count explored (the API admits 1..10)
MaxCand  == 2      \* raw candidates returned by one pipeline call
MaxLines == 2      \* lines in one remote-API response
MaxHttp  == 4      \* HTTP outcomes the remote endpoint is asked for at most
MaxTicks == 3      \* clock ticks explored while a batch is in flight
TickSecs == 60     \* seconds per clock tick
MaxRetriesArg == 4 \* largest max_retries constructor argument explored
PoolSize == 2      \* N: max_workers of the factory's ThreadPoolExecutor
MaxTasks == 3      \* tasks submitted to the factory's pool that are explored
MaxQa    == 1      \* QA calls explored at once in the local adapter's own executor

(* ----------------------- program constants ----------------------------- *)
LowSim     == 30   \* 0.3, in hundredths
Threshold  == 75   \* 0.75
TargetSim  == 60   \* 0.6
MinWords   == 5
MaxWords   == 30
MaxTries   == 3    \* backoff max_tries
MaxCount   == 10   \* largest num_statements a request may ask for

KINDS == {"gpt2", "claude"}
REQUESTABLE == {"gpt2", "claude", "t5"}

(* ------------------------------ text ----------------------------------- *)
Min(a, b) == IF a < b THEN a ELSE b
Max(a, b) == IF a > b THEN a ELSE b
Abs(x) == IF x < 0 THEN -x ELSE x

\* the element of a one-element set; Only({F(v) : v \in {e}}) evaluates e once
Only(S) == CHOOSE x \in S : TRUE

\* a slice that was forgotten
TakeAll(s, n) == s

\* s[:n] for n >= 0
Take(s, n) == SubSeq(s, 1, Min(Len(s), n))

IsPrefix(p, s) == Len(p) <= Len(s) /\ SubSeq(s, 1, Len(p)) = p

RECURSIVE LStrip(_)
LStrip(s) == IF s # <<>> /\ Head(s) = " " THEN LStrip(Tail(s)) ELSE s

RECURSIVE RStrip(_)
RStrip(s) == IF s # <<>> /\ s[Len(s)] = " " THEN RStrip(SubSeq(s, 1, Len(s) - 1)) ELSE s

\* str.strip()
Strip(s) == RStrip(LStrip(s))

\* len(sentence.split()): "." is attached to the word before it
WordCount(s) == Cardinality({i \in 1..Len(s) : s[i] \notin {" ", "."}})

\* the text of pair i: full sentence and the partial sentence (a prefix)
W(i) == "s" \o ToString(i)
Full(i) == <<W(i), "was", "a", "true", "fact", ".">>
Partial(i) == <<W(i), "was">>

(* --------------------- Candidate Filter (local adapter) ---------------- *)
\* A generated sentence about pair i; its third word f decides what the
\* embedding oracle says about it.
Cand(i, f) == <<"it", "was", f, "in", W(i), ".">>
ShortCand(i) == <<"it", "was", W(i), ".">>
NoVerbCand(i) == <<"it", "the", "mid", "in", W(i), ".">>

\* raw pipeline outputs for pair i: the text of one generated sequence; the
\* prompt is the partial sentence, and the model may complete it the way the
\* original sentence does
RawTexts(i) ==
    { Cand(i, "mid"),
      Full(i),
      <<" ">> \o Cand(i, "near") \o <<" ", "and", "more", ".">>,
      Cand(i, "junk"),
      NoVerbCand(i),
      ShortCand(i),
      <<>> }

RECURSIVE SeqsUpTo(_, _)
SeqsUpTo(S, n) ==
    IF n = 0 THEN {<<>>}
    ELSE UNION {shorter \cup {Append(q, x) : q \in {r \in shorter : Len(r) = n - 1}, x \in S} :
                shorter \in {SeqsUpTo(S, n - 1)}}

\* sent_tokenize: cut the token stream after every "."; a rest without a
\* word is no sentence
RECURSIVE SplitSentences(_, _, _)
SplitSentences(toks, cur, acc) ==
    IF toks = <<>>
    THEN IF WordCount(cur) > 0 THEN Append(acc, cur) ELSE acc
    ELSE IF Head(toks) = "."
         THEN SplitSentences(Tail(toks), <<>>, Append(acc, Append(cur, ".")))
         ELSE SplitSentences(Tail(toks), Append(cur, Head(toks)), acc)

SentTokenize(raw) == SplitSentences(raw, <<>>, <<>>)

\* spaCy oracle: token.pos_ == "VERB", token.dep_ == "nsubj"; the subject of
\* a generated sentence is "it", that of an original sentence its first word
HasVerb(s) == \E k \in 1..Len(s) : s[k] = "was"
HasSubject(s) ==
    \E k \in 1..Len(s) : s[k] = "it" \/ (k = 1 /\ s[k] \in {W(i) : i \in 1..MaxPairs})

\* sentence-encoder oracle: cosine similarity to the original, in hundredths
SimPct(original, s) ==
    IF s = original THEN 100
    ELSE IF \E k \in 1..Len(s) : s[k] = "mid" THEN 60
    ELSE IF \E k \in 1..Len(s) : s[k] = "near" THEN 70
    ELSE IF \E k \in 1..Len(s) : s[k] = "far" THEN 45
    ELSE IF \E k \in 1..Len(s) : s[k] = "edge" THEN 75
    ELSE IF \E k \in 1..Len(s) : s[k] = "floor" THEN 30
    ELSE 10

\* _is_valid_sentence: a spaCy error counts as valid
IsValidSentence(s, fault) ==
    IF WordCount(s) < MinWords \/ WordCount(s) > MaxWords THEN FALSE
    ELSE IF fault = "nlp" THEN TRUE
    ELSE HasVerb(s) /\ HasSubject(s)

\* the lru_cache of _is_valid_sentence: sentence -> cached verdict
EmptyCache == [s \in {} |-> FALSE]

\* @lru_cache: a cached verdict is returned without asking spaCy again
\* (maxsize is 128, more than the sentences explored: nothing is evicted)
IsValidCached(s, fault, cache) ==
    IF s \in DOMAIN cache THEN cache[s] ELSE IsValidSentence(s, fault)

\* the sentences whose validity one run of the filter asks for
RECURSIVE Validated(_)
Validated(cands) ==
    IF cands = <<>> THEN {}
    ELSE Only({ (IF sentences # <<>> THEN {Strip(sentences[1])} ELSE {})
                \cup Validated(Tail(cands)) :
                sentences \in {SentTokenize(Head(cands))} })

\* the cache after a run of the filter over cands
CacheAfter(cands, fault, cache) ==
    [s \in DOMAIN cache \cup Validated(cands) |-> IsValidCached(s, fault, cache)]

\* _filter_sentences, lines 355-367: first sentence, stripped, kept if valid
RECURSIVE CleanCandidatesCached(_, _, _)
CleanCandidatesCached(cands, fault, cache) ==
    IF cands = <<>> THEN <<>>
    ELSE Only({ IF sentences # <<>> /\ IsValidCached(Strip(sentences[1]), fault, cache)
                THEN <<Strip(sentences[1])>>
                     \o CleanCandidatesCached(Tail(cands), fault, cache)
                ELSE CleanCandidatesCached(Tail(cands), fault, cache) :
                sentences \in {SentTokenize(Head(cands))} })

\* the same on an instance that has validated nothing yet
CleanCandidates(cands, fault) == CleanCandidatesCached(cands, fault, EmptyCache)

\* _calculate_similarity: a failing cosine is logged and counts as 0.0
CalculateSimilarity(original, s, fault) ==
    IF fault = "cosine" /\ SimPct(original, s) = TargetSim THEN 0
    ELSE SimPct(original, s)

\* a band that includes its two ends
WithinBandInclusive(sim, threshold) == LowSim <= sim /\ sim <= threshold

\* line 385: 0.3 < similarity < threshold
WithinBand(sim, threshold) == LowSim < sim /\ sim < threshold

\* lines 381-392: the candidates inside the similarity band, in input order
RECURSIVE InBand(_, _, _, _)
InBand(original, cleaned, threshold, fault) ==
    IF cleaned = <<>> THEN <<>>
    ELSE Only({ IF WithinBand(sim, threshold)
                THEN <<[text |-> Head(cleaned), similarity |-> sim]>>
                     \o InBand(original, Tail(cleaned), threshold, fault)
                ELSE InBand(original, Tail(cleaned), threshold, fault) :
                sim \in {CalculateSimilarity(original, Head(cleaned), fault)} })

\* a key that ranks by the similarity itself
SortKeySimilarity(item) == item.similarity

\* the sort key of line 395
SortKey(item) == Abs(TargetSim - item.similarity)

\* where list.sort puts element j: after the elements with a smaller key and
\* after the earlier elements with the same key (the sort is stable)
SortedPosition(items, j) ==
    1 + Cardinality({k \in 1..Len(items) : SortKey(items[k]) < SortKey(items[j])})
      + Cardinality({k \in 1..(j - 1) : SortKey(items[k]) = SortKey(items[j])})

\* filtered_candidates.sort(key=lambda x: abs(0.6 - x["similarity"]))
SortByTarget(items) ==
    Only({ [p \in 1..Len(v) |-> v[CHOOSE j \in 1..Len(v) : SortedPosition(v, j) = p]] :
           v \in {items} })

Texts(items) == [k \in 1..Len(items) |-> items[k].text]

\* a fallback that gives up
EmbeddingFallbackEmpty(cleaned, max_results) == <<>>

\* lines 376 and 400: return cleaned_candidates[:max_results]
EmbeddingFallback(cleaned, max_results) == Take(cleaned, max_results)

\* _filter_sentences(original, candidates, threshold, max_results); fault is
\* what fails inside: "none", "nlp" (spaCy), "encode" (the batched encode call,
\* _get_embeddings returns None) or "cosine" (one candidate's similarity)
\* the result, the return statement that gave it, and cleaned_candidates
FilterOutcomeCached(original, candidates, threshold, max_results, fault, cache) ==
    IF candidates = <<>>
    THEN [value |-> <<>>, path |-> "no_candidates", cleaned |-> <<>>]
    ELSE Only({ IF cleaned = <<>>
                THEN [value |-> <<>>, path |-> "none_valid", cleaned |-> cleaned]
                ELSE IF fault = "encode"
                THEN [value |-> EmbeddingFallback(cleaned, max_results),
                      path |-> "embedding_fallback",
                      cleaned |-> cleaned]
                ELSE [value |-> Take(Texts(SortByTarget(InBand(original, cleaned,
                                                               threshold, fault))),
                                     max_results),
                      path |-> "ranked", cleaned |-> cleaned] :
                cleaned \in {CleanCandidatesCached(candidates, fault, cache)} })

\* the same on an instance that has validated nothing yet
FilterOutcome(original, candidates, threshold, max_results, fault) ==
    FilterOutcomeCached(original, candidates, threshold, max_results, fault, EmptyCache)

FilterSentences(original, candidates, threshold, max_results, fault) ==
    FilterOutcome(original, candidates, threshold, max_results, fault).value

(* ------------------------- local-model adapter ------------------------- *)
FAULTS == {"none", "nlp", "encode", "cosine"}

\* What the models do during one generate_false_statements call: load is the
\* outcome of _load_models if the call has to load, gen the outcome of the
\* generation pipeline, raws its outputs, fault what fails inside the filter,
\* slow whether the pipeline took longer than self.timeout.
LocalOracles(i, loads, slows, maxCand) ==
    {[load |-> l, gen |-> "ok", raws |-> r, fault |-> f, slow |-> sl] :
        l \in loads, r \in SeqsUpTo(RawTexts(i), maxCand), f \in FAULTS, sl \in slows}
    \cup {[load |-> l, gen |-> "err", raws |-> <<>>, fault |-> "none", slow |-> FALSE] :
        l \in loads}

\* ImprovedFalseStatementGenerator.generate_false_statements: the load before
\* the try raises to the caller, a pipeline error is caught and gives [],
\* exceeding self.timeout only logs a warning
LocalGenerate(ready, partial, full, n, o) ==
    IF ~ready /\ o.load = "fail"
    THEN [raised |-> TRUE, value |-> <<>>, loaded |-> FALSE, path |-> "load_failed",
          timedOut |-> FALSE, attempts |-> 0, used |-> "gpt2"]
    ELSE IF o.gen = "err"
    THEN [raised |-> FALSE, value |-> <<>>, loaded |-> TRUE, path |-> "generation_error",
          timedOut |-> FALSE, attempts |-> 0, used |-> "gpt2"]
    ELSE Only({ [raised |-> FALSE, value |-> f.value, loaded |-> TRUE, path |-> f.path,
                 timedOut |-> o.slow, attempts |-> 0, used |-> "gpt2"] :
                f \in {FilterOutcome(full, o.raws, Threshold, n, o.fault)} })

(* -------------------------- remote-API adapter ------------------------- *)
\* lines of a response about pair i; the second is the original sentence's own
\* completion of the partial sentence
ResponseLines(i) ==
    { Partial(i) \o <<"blue", ".">>,
      <<"a", "true", "fact", ".">>,
      <<"green", ".">>,
      <<" ">>,
      <<"7">>,
      <<" ">> \o Partial(i) \o <<"red", ".", " ">> }

\* str.isdigit() of a stripped line
IsDigit(l) == Len(l) = 1 /\ l[1] \in {"7"}

\* What the endpoint does during one call: fails is the number of requests it
\* fails (RequestException, a timeout when timeouts holds) before it answers,
\* resp the shape of the answer and lines its text.
ClaudeOracles(i, kinds, maxLines) ==
    {[fails |-> 0, resp |-> "text", lines |-> ls, timeouts |-> FALSE] :
        ls \in SeqsUpTo(ResponseLines(i), maxLines)}
    \cup {[fails |-> f, resp |-> "text", lines |-> <<<<"green", ".">>>>, timeouts |-> t] :
        f \in 1..MaxHttp, t \in kinds}
    \cup {[fails |-> f, resp |-> r, lines |-> <<>>, timeouts |-> FALSE] :
        f \in 0..1, r \in {"nocontent", "malformed"}}

\* _call_claude_api under backoff.on_exception(expo, RequestException,
\* max_tries=3): the request is repeated after a failure until it has been
\* made max_tries times, then the exception is raised
CallClaudeApi(max_retries, fails) ==
    [attempts |-> Min(fails + 1, MaxTries), raised |-> fails >= MaxTries]

\* lines 126-127: stripped lines that are neither empty nor a number
RECURSIVE ParseLines(_)
ParseLines(lines) ==
    IF lines = <<>> THEN <<>>
    ELSE LET l == Strip(Head(lines))
         IN  IF l # <<>> /\ ~IsDigit(l) THEN <<l>> \o ParseLines(Tail(lines))
             ELSE ParseLines(Tail(lines))

\* the partial sentence prepended to every statement
CompleteAlways(partial, statements) ==
    [k \in 1..Len(statements) |-> partial \o statements[k]]

\* lines 133-135: the partial sentence is prepended to a statement that does
\* not start with it
Complete(partial, statements) ==
    [k \in 1..Len(statements) |->
        IF IsPrefix(partial, statements[k]) THEN statements[k]
        ELSE partial \o statements[k]]

\* generate_false_statements letting the exception of the API call through
ClaudeGeneratePropagating(max_retries, partial, full, n, o) ==
    LET api == CallClaudeApi(max_retries, o.fails)
        base == [raised |-> FALSE, value |-> <<>>, loaded |-> FALSE, path |-> "",
                 timedOut |-> FALSE, attempts |-> api.attempts, used |-> "claude"]
    IN  IF api.raised
        THEN [base EXCEPT !.raised = TRUE, !.path = "retries_exhausted",
                          !.timedOut = o.timeouts]
        ELSE IF o.resp = "nocontent" THEN [base EXCEPT !.path = "no_content"]
        ELSE IF o.resp = "malformed" THEN [base EXCEPT !.path = "malformed"]
        ELSE [base EXCEPT !.path = "parsed",
                          !.value = Complete(partial, Take(ParseLines(o.lines), n))]

\* ClaudeFalseStatementGenerator.generate_false_statements: the whole body is
\* inside try/except Exception, which returns []
ClaudeGenerate(max_retries, partial, full, n, o) ==
    LET api == CallClaudeApi(max_retries, o.fails)
        base == [raised |-> FALSE, value |-> <<>>, loaded |-> FALSE, path |-> "",
                 timedOut |-> FALSE, attempts |-> api.attempts, used |-> "claude"]
    IN  IF api.raised
        THEN [base EXCEPT !.path = "retries_exhausted", !.timedOut = o.timeouts]
        ELSE IF o.resp = "nocontent" THEN [base EXCEPT !.path = "no_content"]
        ELSE IF o.resp = "malformed" THEN [base EXCEPT !.path = "malformed"]
        ELSE [base EXCEPT !.path = "parsed",
                          !.value = Complete(partial, Take(ParseLines(o.lines), n))]

(* ------------------------------ factory -------------------------------- *)
DefaultMaxRetries == 3
DefaultNumStatements == 3   \* num_statements of generate_statements_batch
MaxSentences == 20          \* sentences one batch request may carry
MinTextChars == 10          \* shortest text POST /generate/qa accepts
MinQaChars == 20            \* shortest text the remote-API adapter makes questions for
WaitRounds == 30            \* seconds _ensure_models_loaded waits for a load in progress

VARIABLES
    version,          \* 1: server/generator_factory.py, 2: server/src/generators/generator_factory.py
    env,              \* what the environment answers while the factory is constructed
    phase,            \* "new" before StatementGeneratorFactory(), "up" after
    ctorRaised,       \* StatementGeneratorFactory() raised
    generators,       \* self.generators: the registered kinds
    modelsLoaded,     \* local adapter: _is_ready()
    loading,          \* local adapter: self._loading
    loadingComplete,  \* local adapter: self._loading_complete.is_set()
    ret,              \* what the last call returned to its caller
    batch,            \* the generate_batch_async call in flight and its executor task
    pool,             \* the factory's ThreadPoolExecutor and the calls running beside it
    filt,             \* runs of _filter_sentences and the lru_cache of _is_valid_sentence
    loaders           \* where each thread and coroutine using the local adapter stands

vars == <<version, env, phase, ctorRaised, generators, modelsLoaded, loading,
          loadingComplete, ret, batch, pool, filt, loaders>>

\* whether the adapters offer generate_statements_batch: the adapter classes
\* of version 1 both do; the adapter modules version 2 imports are described
\* by the adapter contract only, which leaves the batch method optional
HasBatchMethod(ver) == IF ver = 1 THEN {TRUE} ELSE BOOLEAN

\* whether the local adapter defers its load to a task (load_async): the
\* factory of version 1 constructs ImprovedFalseStatementGenerator with the
\* default, which loads in the constructor; the adapter module version 2
\* imports is described as lazily or eagerly initialised
LoadAsyncOptions(ver) == IF ver = 1 THEN {FALSE} ELSE BOOLEAN

\* gpt2Ok / smallOk: _load_models succeeds for gpt2-medium / for gpt2 (the
\* second is read only by version 2, after the first failed, and neither when
\* the load is deferred); apiKey: ANTHROPIC_API_KEY is set; loadAsync: the
\* local adapter defers its load; hasBatch: the adapters offer
\* generate_statements_batch
Envs(ver) ==
    {e \in [gpt2Ok : BOOLEAN, smallOk : BOOLEAN, apiKey : BOOLEAN,
            loadAsync : BOOLEAN, hasBatch : BOOLEAN] :
        /\ (ver = 1 \/ e.gpt2Ok \/ e.loadAsync) => ~e.smallOk
        /\ e.loadAsync => e.gpt2Ok
        /\ e.loadAsync \in LoadAsyncOptions(ver)
        /\ e.hasBatch \in HasBatchMethod(ver)}

\* ImprovedFalseStatementGenerator.__init__: raises when the synchronous load
\* fails; with load_async the load is left to a task
LocalCtorOk(e, loadOk) == e.loadAsync \/ loadOk

\* ClaudeFalseStatementGenerator.__init__: raises ValueError without a key
ClaudeCtorOk(e) == e.apiKey

\* the GPT-2 part without its try/except
RegisterGpt2Unguarded(ver, e) ==
    IF LocalCtorOk(e, e.gpt2Ok) THEN [raised |-> FALSE, kinds |-> {"gpt2"}]
    ELSE [raised |-> TRUE, kinds |-> {}]

\* _init_generators, the GPT-2 part: try/except Exception around the
\* constructor; version 2 retries with the smaller model inside the handler
RegisterGpt2(ver, e) ==
    IF LocalCtorOk(e, e.gpt2Ok) THEN [raised |-> FALSE, kinds |-> {"gpt2"}]
    ELSE IF ver = 2 /\ LocalCtorOk(e, e.smallOk) THEN [raised |-> FALSE, kinds |-> {"gpt2"}]
    ELSE [raised |-> FALSE, kinds |-> {}]

\* _init_generators, the Claude part: version 1 constructs the adapter only
\* when the key is set, version 2 constructs it and catches the ValueError
RegisterClaude(ver, e) ==
    IF ver = 1
    THEN IF e.apiKey THEN [raised |-> FALSE, kinds |-> {"claude"}]
         ELSE [raised |-> FALSE, kinds |-> {}]
    ELSE IF ClaudeCtorOk(e) THEN [raised |-> FALSE, kinds |-> {"claude"}]
         ELSE [raised |-> FALSE, kinds |-> {}]

\* StatementGeneratorFactory.__init__ / _init_generators: the two parts in
\* sequence; an exception leaving the first part would skip the second
InitGenerators(ver, e) ==
    LET g == RegisterGpt2(ver, e)
        c == RegisterClaude(ver, e)
    IN  IF g.raised THEN [raised |-> TRUE, kinds |-> g.kinds]
        ELSE [raised |-> c.raised, kinds |-> g.kinds \cup c.kinds]

\* get_generator: the registry is fixed once __init__ returns, so the
\* lru_cache in front of it returns what the body would
GetGenerator(ver, gens, generator_type) ==
    IF generator_type \in gens THEN generator_type
    ELSE IF ver = 1
         THEN IF "claude" \in gens THEN "claude"
              ELSE IF "gpt2" \in gens THEN "gpt2" ELSE "None"
         ELSE IF "gpt2" \in gens THEN "gpt2" ELSE "None"

\* the adapter's generate_false_statements; the factories construct the
\* Claude adapter with the default max_retries
AdapterGenerate(g, ready, partial, full, n, o) ==
    IF g = "gpt2" THEN LocalGenerate(ready, partial, full, n, o)
    ELSE ClaudeGenerate(DefaultMaxRetries, partial, full, n, o)

\* generate_false_statements without the try/except around the adapter call
GenerateOnePropagating(ver, gens, ready, generator_type, partial, full, n, o) ==
    LET g == GetGenerator(ver, gens, generator_type)
    IN  IF g = "None"
        THEN [raised |-> FALSE, value |-> <<>>, loaded |-> FALSE, path |-> "no_generator",
              timedOut |-> FALSE, attempts |-> 0, used |-> "None"]
        ELSE AdapterGenerate(g, ready, partial, full, n, o)

\* StatementGeneratorFactory.generate_false_statements of both versions:
\* [] without a generator, [] when the adapter raises
GenerateOne(ver, gens, ready, generator_type, partial, full, n, o) ==
    LET g == GetGenerator(ver, gens, generator_type)
    IN  IF g = "None"
        THEN [raised |-> FALSE, value |-> <<>>, loaded |-> FALSE, path |-> "no_generator",
              timedOut |-> FALSE, attempts |-> 0, used |-> "None"]
        ELSE Only({ IF r.raised
                    THEN [r EXCEPT !.raised = FALSE, !.value = <<>>, !.path = "adapter_raised"]
                    ELSE r :
                    r \in {AdapterGenerate(g, ready, partial, full, n, o)} })

\* the oracle of one call served by adapter g
OraclesFor(g, ready, i, width) ==
    IF g = "gpt2"
    THEN LocalOracles(i, IF ready THEN {"ok"} ELSE {"ok", "fail"}, {FALSE}, Min(width, MaxCand))
    ELSE IF g = "claude" THEN ClaudeOracles(i, {FALSE}, Min(width, MaxLines))
    ELSE {[fails |-> 0, resp |-> "nocontent", lines |-> <<>>, timeouts |-> FALSE]}

(* ------------------------------ HTTP layer ----------------------------- *)
\* word_tokenize: the words and the punctuation marks, without the blanks
WordTokenize(s) == SelectSeq(s, LAMBDA t : t # " ")

\* ' '.join(words[:len(words) // 2])
DerivePartial(full) ==
    SubSeq(WordTokenize(full), 1, Len(WordTokenize(full)) \div 2)

ShortFull(i) == <<W(i), "was", ".">>

\* the full_sentence values a request carries
FullSentences(i) == {<<>>, ShortFull(i), Full(i)}

\* the partial_sentence values a request carries; <<>> is an omitted one
PartialSentences(i) == {<<>>, Partial(i)}

\* generate_statements of fastapi_app.py: validation, then
\* generate_false_statements_async('gpt2', ...) on the factory and a success
\* response around whatever list it returned
GenerateStatements(ver, gens, ready, full, partial, n, o) ==
    LET p == IF partial = <<>> THEN DerivePartial(full) ELSE partial
        rejected == [raised |-> FALSE, value |-> <<>>, loaded |-> FALSE, path |-> "rejected",
                     timedOut |-> FALSE, attempts |-> 0, used |-> "None"]
        bad == [status |-> 400, r |-> rejected, generator_used |-> "None", calls |-> 0]
    IN  IF full = <<>> THEN bad
        ELSE IF n < 1 \/ n > MaxCount THEN bad
        ELSE IF partial = <<>> /\ Len(WordTokenize(full)) < 4 THEN bad
        ELSE [status |-> 200, r |-> GenerateOne(ver, gens, ready, "gpt2", p, full, n, o),
              generator_used |-> "gpt2",
              calls |-> IF GetGenerator(ver, gens, "gpt2") = "None" THEN 0 ELSE 1]

(* ------------------------------- actions ------------------------------- *)
NoRet ==
    [op |-> "none", kind |-> "none", used |-> "None", pair |-> 0, n |-> 0,
     value |-> <<>>, raised |-> FALSE, path |-> "none", attempts |-> 0,
     retries |-> 0, status |-> 0, timedOut |-> FALSE, fails |-> 0,
     len |-> 0, items |-> <<>>, order |-> <<>>, elapsed |-> 0,
     req |-> <<>>, reported |-> "None", calls |-> 0, health |-> <<>>, questions |-> <<>>,
     lines |-> <<>>]

Returned(op, kind, i, n, r, used, retries, status, fails) ==
    [op |-> op, kind |-> kind, used |-> used, pair |-> i, n |-> n,
     value |-> r.value, raised |-> r.raised, path |-> r.path, attempts |-> r.attempts,
     retries |-> retries, status |-> status, timedOut |-> r.timedOut, fails |-> fails,
     len |-> 0, items |-> <<>>, order |-> <<>>, elapsed |-> 0,
     req |-> <<>>, reported |-> "None", calls |-> 0, health |-> <<>>, questions |-> <<>>,
     lines |-> <<>>]

\* no batch call in flight; work is the blocking work done for the call so
\* far, each piece with the thread that ran it
NoBatch ==
    [stage |-> "idle", kind |-> "none", used |-> "None", n |-> 0, len |-> 0,
     path |-> "none", worker |-> "none", out |-> <<>>, items |-> <<>>, order |-> <<>>,
     elapsed |-> 0, http |-> FALSE, ready0 |-> FALSE, work |-> {}]

\* the worker pool as ThreadPoolExecutor(max_workers=N) leaves it: nothing
\* submitted, no call on the event-loop thread (loopCall), none in the local
\* adapter's own executor (adapterRunning), nobody inside shutdown() (stack)
NoPool ==
    [shutdown |-> FALSE, tasks |-> <<>>, loopCall |-> "none", adapterRunning |-> 0,
     stack |-> <<>>, returned |-> {}, pending |-> 0, refused |-> FALSE]

\* no run of the filter yet, nothing cached
NoFilt ==
    [original |-> <<>>, candidates |-> <<>>, threshold |-> Threshold, max_results |-> 0,
     runs |-> <<>>, cache |-> EmptyCache]

\* coroutines of the event loop awaiting _ensure_models_loaded, and executor
\* threads inside generate_false_statements or generate_statements_batch
COROUTINES == {"e1", "e2"}
WORKERS == {"w1", "w2"}

\* nobody uses the local adapter: no load task (bg), every coroutine and
\* thread outside its call, _loading_lock free
NoLoaders ==
    [bg |-> "none", pc |-> [t \in COROUTINES \cup WORKERS |-> "idle"],
     slept |-> [e \in COROUTINES |-> 0], lock |-> "none"]

Init ==
    /\ batch = NoBatch
    /\ pool = NoPool
    /\ filt = NoFilt
    /\ loaders = NoLoaders
    /\ version \in {1, 2}
    /\ env \in Envs(version)
    /\ phase = "new"
    /\ ctorRaised = FALSE
    /\ generators = {}
    /\ modelsLoaded = FALSE
    /\ loading = FALSE
    /\ loadingComplete = FALSE
    /\ ret = NoRet

\* StatementGeneratorFactory(): the registry, and the local adapter's load
\* state as its constructor leaves it
Constructed(ver, e) ==
    Only({ [raised |-> made.raised,
            kinds |-> made.kinds,
            ready |-> ("gpt2" \in made.kinds /\ ~e.loadAsync),
            loading |-> ("gpt2" \in made.kinds /\ e.loadAsync),
            complete |-> ("gpt2" \in made.kinds /\ ~e.loadAsync)] :
           made \in {InitGenerators(ver, e)} })

Construct ==
    /\ phase = "new"
    /\ \E made \in {Constructed(version, env)} :
           /\ ctorRaised' = made.raised
           /\ generators' = made.kinds
           /\ modelsLoaded' = made.ready
           /\ loading' = made.loading
           /\ loadingComplete' = made.complete
    /\ phase' = "up"
    /\ UNCHANGED <<loaders, pool, filt, version, env, ret, batch>>

Idle == phase = "up" /\ ~ctorRaised /\ ret.op = "none" /\ batch.stage = "idle"

\* _load_models_async: the task started by the constructor finishes
LoadModelsAsync(ok) ==
    /\ phase = "up" /\ ~ctorRaised /\ ret.op = "none"
    /\ batch.stage \in {"idle", "ensure"}
    /\ "gpt2" \in generators
    /\ env.loadAsync
    /\ ~loadingComplete
    /\ modelsLoaded' = (modelsLoaded \/ ok)
    /\ loading' = FALSE
    /\ loadingComplete' = TRUE
    /\ UNCHANGED <<loaders, pool, filt, version, env, phase, ctorRaised, generators, ret, batch>>

\* factory.get_generator(kind)
CallGetGenerator(kind) ==
    /\ Idle
    /\ ret' = [NoRet EXCEPT !.op = "get_generator", !.kind = kind,
                            !.used = GetGenerator(version, generators, kind)]
    /\ UNCHANGED <<loaders, pool, filt, version, env, phase, ctorRaised, generators, modelsLoaded, loading,
                   loadingComplete, batch>>

\* factory.generate_false_statements(kind, partial, full, n)
CallGenerateOne(kind, i, n) ==
    /\ Idle
    /\ \E o \in OraclesFor(GetGenerator(version, generators, kind), modelsLoaded, i, 2) :
         \E r \in {GenerateOne(version, generators, modelsLoaded, kind,
                               Partial(i), Full(i), n, o)} :
             /\ ret' = Returned("generate_one", kind, i, n, r, r.used, DefaultMaxRetries,
                                0, IF r.used = "claude" THEN o.fails ELSE 0)
             /\ modelsLoaded' = (modelsLoaded \/ (r.used = "gpt2" /\ r.loaded))
    /\ UNCHANGED <<loaders, pool, filt, version, env, phase, ctorRaised, generators, loading, loadingComplete,
                   batch>>

\* generate_false_statements called on the registered local adapter itself
CallLocalAdapter(i, n) ==
    /\ Idle
    /\ "gpt2" \in generators
    /\ \E o \in OraclesFor("gpt2", modelsLoaded, i, MaxCand) :
         \E r \in {LocalGenerate(modelsLoaded, Partial(i), Full(i), n, o)} :
             /\ ret' = Returned("local_adapter", "gpt2", i, n, r, "gpt2", 0, 0, 0)
             /\ modelsLoaded' = (modelsLoaded \/ r.loaded)
    /\ UNCHANGED <<loaders, pool, filt, version, env, phase, ctorRaised, generators, loading, loadingComplete,
                   batch>>

\* ClaudeFalseStatementGenerator(api_key=..., max_retries=m) and one call of
\* its generate_false_statements
CallClaudeAdapter(m, i, n) ==
    /\ Idle
    /\ \E o \in OraclesFor("claude", TRUE, i, MaxLines) :
         \E r \in {ClaudeGenerate(m, Partial(i), Full(i), n, o)} :
             ret' = [Returned("claude_adapter", "claude", i, n, r, "claude", m, 0, o.fails)
                        EXCEPT !.lines = o.lines]
    /\ UNCHANGED <<loaders, pool, filt, version, env, phase, ctorRaised, generators, modelsLoaded, loading,
                   loadingComplete, batch>>

\* POST /generate/statements
CallGenerateStatements(full, partial, i, n) ==
    /\ Idle
    /\ \E o \in OraclesFor(GetGenerator(version, generators, "gpt2"), modelsLoaded, i, 1) :
         \E h \in {GenerateStatements(version, generators, modelsLoaded, full, partial, n, o)} :
             /\ ret' = [Returned("generate_statements", "gpt2", i, n, h.r, h.r.used,
                                 DefaultMaxRetries, h.status, 0)
                           EXCEPT !.req = [full |-> full, partial |-> partial],
                                  !.reported = h.generator_used, !.calls = h.calls]
             /\ modelsLoaded' = (modelsLoaded \/ (h.r.used = "gpt2" /\ h.r.loaded))
    /\ UNCHANGED <<loaders, pool, filt, version, env, phase, ctorRaised, generators, loading, loadingComplete,
                   batch>>

\* the caller has taken the result; the next call can start
Ack ==
    /\ ret.op # "none"
    /\ ret' = NoRet
    /\ UNCHANGED <<loaders, pool, filt, version, env, phase, ctorRaised, generators, modelsLoaded, loading,
                   loadingComplete, batch>>

Next ==
    \/ Construct
    \/ \E ok \in BOOLEAN : LoadModelsAsync(ok)
    \/ \E kind \in REQUESTABLE : CallGetGenerator(kind)
    \/ \E kind \in REQUESTABLE, n \in 1..MaxN : CallGenerateOne(kind, 1, n)
    \/ \E n \in 1..MaxN : CallLocalAdapter(1, n)
    \/ \E m \in 1..MaxRetriesArg, n \in 1..MaxN : CallClaudeAdapter(m, 1, n)
    \/ \E n \in 1..MaxN :
         \E full \in FullSentences(1), partial \in PartialSentences(1) :
            CallGenerateStatements(full, partial, 1, n)
    \/ Ack

Spec == Init /\ [][Next]_vars

(* ------------------------ generate_batch_async ------------------------- *)
\* the timeout handed to asyncio.wait_for, in seconds
BatchTimeoutSecs(ver, k) ==
    IF ver = 1 THEN Max(120, k * 45) ELSE Max(60, k * 30)

\* return [] in place of the placeholders
NoResults(k) == <<>>

\* [[] for _ in partial_sentences]
EmptyResults(k) == [i \in 1..k |-> <<>>]

\* an input pair whose generation has not finished
PendingItem ==
    [done |-> FALSE, value |-> <<>>, failed |-> FALSE, slow |-> FALSE, oracle |-> <<>>]

\* the ways a generation ends by an exception, inside or outside the adapter
FailurePaths ==
    {"load_failed", "generation_error", "retries_exhausted", "malformed", "adapter_raised"}

\* what one pair's generation did: its list, whether an exception ended it,
\* whether it ran into its time limit, and what the models or the endpoint
\* answered (o)
ItemRecord(r, o) ==
    [done |-> TRUE, value |-> r.value, failed |-> (r.raised \/ r.path \in FailurePaths),
     slow |-> r.timedOut, oracle |-> o]

\* what the models or the endpoint do for pair i of a batch
BatchOracles(g, ready, i) ==
    IF g = "gpt2"
    THEN {[load |-> "ok", gen |-> "ok", raws |-> <<Cand(i, "mid"), Cand(i, "far")>>,
           fault |-> "none", slow |-> sl] : sl \in BOOLEAN}
         \cup {[load |-> "ok", gen |-> "err", raws |-> <<>>, fault |-> "none", slow |-> FALSE]}
         \cup (IF ready THEN {}
               ELSE {[load |-> "fail", gen |-> "ok", raws |-> <<>>, fault |-> "none",
                      slow |-> FALSE]})
    ELSE {[fails |-> 0, resp |-> "text",
           lines |-> <<Partial(i) \o <<"blue", ".">>, <<"green", ".">>>>, timeouts |-> FALSE]}
         \cup {[fails |-> MaxTries, resp |-> "text", lines |-> <<>>, timeouts |-> t] :
               t \in BOOLEAN}

\* one turn of the loop of ImprovedFalseStatementGenerator.generate_statements_batch:
\* an exception of the item is caught and gives []
LocalBatchItem(ready, i, n, o) ==
    Only({ IF r.raised THEN [r EXCEPT !.raised = FALSE, !.value = <<>>] ELSE r :
           r \in {LocalGenerate(ready, Partial(i), Full(i), n, o)} })

\* one turn of the loop of ClaudeFalseStatementGenerator.generate_statements_batch:
\* the loop has no handler of its own
ClaudeBatchItem(i, n, o) ==
    ClaudeGenerate(DefaultMaxRetries, Partial(i), Full(i), n, o)

\* a batch method that does not pass num_statements on
NativeItemDefaultCount(g, ready, i, n, o) ==
    IF g = "gpt2" THEN LocalBatchItem(ready, i, DefaultNumStatements, o)
    ELSE ClaudeBatchItem(i, DefaultNumStatements, o)

\* the turn for pair i of the adapter's generate_statements_batch
NativeItem(g, ready, i, n, o) ==
    IF g = "gpt2" THEN LocalBatchItem(ready, i, n, o) ELSE ClaudeBatchItem(i, n, o)

\* asyncio.gather and the loop over its results: one entry per task, in the
\* order the tasks were created
GatherResults(items, order) ==
    [i \in 1..Len(items) |-> items[i].value]

\* the executor still works for the call
Busy(b) ==
    \/ b.path = "native" /\ b.worker \in {"begin", "items"}
    \/ b.path = "fallback" /\ \E i \in 1..b.len : ~b.items[i].done

\* how long the call can go on waiting: wait_for bounds the native batch
\* task, nothing bounds gather (the clock of the model stops at MaxTicks)
WaitLimit(ver, b) ==
    IF b.path = "native" THEN BatchTimeoutSecs(ver, b.len) ELSE MaxTicks * TickSecs

\* what generate_batch_async returns; for a call made by POST /generate/batch
\* (b.http) the success response around it, with generator_used
BatchRet(b, value, path) ==
    [NoRet EXCEPT !.op = IF b.http THEN "generate_batch_http" ELSE "generate_batch",
                  !.kind = b.kind, !.used = b.used, !.n = b.n,
                  !.len = b.len, !.value = value, !.path = path, !.items = b.items,
                  !.order = b.order, !.elapsed = b.elapsed, !.req = [ready0 |-> b.ready0],
                  !.status = IF b.http THEN 200 ELSE 0,
                  !.reported = IF b.http THEN b.kind ELSE "None",
                  !.calls = Cardinality({i \in 1..Len(b.items) : b.items[i].done})]

\* the state a constructed factory is in
InitBatch ==
    /\ pool = NoPool
    /\ filt = NoFilt
    /\ loaders = NoLoaders
    /\ version \in {1, 2}
    /\ env \in Envs(version)
    /\ phase = "up"
    /\ \E made \in {Constructed(version, env)} :
           /\ ctorRaised = made.raised
           /\ generators = made.kinds
           /\ modelsLoaded = made.ready
           /\ loading = made.loading
           /\ loadingComplete = made.complete
    /\ ret = NoRet
    /\ batch = NoBatch

\* generate_batch_async(kind, partials, fulls, n) for the pairs 1..k, up to
\* the lookup of the generator
CallGenerateBatchAsync(kind, k, n) ==
    /\ Idle
    /\ \E g \in {GetGenerator(version, generators, kind)} :
         IF g = "None"
         THEN /\ ret' = BatchRet([NoBatch EXCEPT !.kind = kind, !.n = n, !.len = k,
                                                 !.ready0 = modelsLoaded,
                                                 !.items = [i \in 1..k |-> PendingItem]],
                                 EmptyResults(k), "no_generator")
              /\ batch' = batch
         ELSE /\ batch' = [NoBatch EXCEPT !.stage = "ensure", !.kind = kind, !.used = g,
                                          !.n = n, !.len = k, !.ready0 = modelsLoaded,
                                          !.items = [i \in 1..k |-> PendingItem]]
              /\ ret' = ret
    /\ UNCHANGED <<loaders, pool, filt, version, env, phase, ctorRaised, generators, modelsLoaded, loading,
                   loadingComplete>>

\* await generator._ensure_models_loaded() inside its try/except, then the
\* dispatch: the adapter's batch method in the executor under wait_for, or
\* one generate_false_statements_async task per pair under gather.  The
\* local adapter loads here when it is neither ready nor loading; the Claude
\* adapter's method is not a coroutine and the TypeError is caught.
EnsureModelsLoaded(ok) ==
    /\ batch.stage = "ensure"
    /\ IF batch.used = "gpt2" /\ ~modelsLoaded /\ ~loading
       THEN /\ modelsLoaded' = ok
            /\ loading' = FALSE
            /\ loadingComplete' = TRUE
       ELSE /\ ok
            /\ UNCHANGED <<modelsLoaded, loading, loadingComplete>>
    /\ batch' = [batch EXCEPT !.stage = "running",
                              !.path = IF env.hasBatch THEN "native" ELSE "fallback",
                              !.worker = IF env.hasBatch THEN "begin" ELSE "none",
                              !.work = IF batch.used = "gpt2" /\ ~modelsLoaded /\ ~loading
                                       THEN @ \cup {[what |-> "load", thread |-> "loop"]}
                                       ELSE @]
    /\ UNCHANGED <<loaders, pool, filt, version, env, phase, ctorRaised, generators, ret>>

\* generate_statements_batch starts in its executor thread: the local
\* adapter loads its models if they are not ready, and the load can raise
BatchWorkerBegin(ok) ==
    /\ batch.stage \in {"running", "abandoned"}
    /\ batch.path = "native"
    /\ batch.worker = "begin"
    /\ IF batch.used = "gpt2" /\ ~modelsLoaded
       THEN /\ modelsLoaded' = ok
            /\ batch' = [batch EXCEPT !.worker = IF ok THEN "items" ELSE "failed",
                                      !.work = @ \cup {[what |-> "load", thread |-> "pool"]}]
       ELSE /\ ok
            /\ modelsLoaded' = modelsLoaded
            /\ batch' = [batch EXCEPT !.worker = "items"]
    /\ UNCHANGED <<loaders, pool, filt, version, env, phase, ctorRaised, generators, loading, loadingComplete, ret>>

\* generate_statements_batch handles its next pair and appends the result
BatchWorkItem ==
    /\ batch.stage \in {"running", "abandoned"}
    /\ batch.path = "native"
    /\ batch.worker = "items"
    /\ \E j \in {Len(batch.out) + 1} :
         \E o \in BatchOracles(batch.used, modelsLoaded, j) :
           \E r \in {NativeItem(batch.used, modelsLoaded, j, batch.n, o)} :
             /\ batch' = IF r.raised
                         THEN [batch EXCEPT !.worker = "failed", !.items[j] = ItemRecord(r, o),
                                            !.order = Append(@, j),
                                            !.work = @ \cup {[what |-> "generate",
                                                              thread |-> "pool"]}]
                         ELSE [batch EXCEPT !.out = Append(@, r.value),
                                            !.items[j] = ItemRecord(r, o),
                                            !.order = Append(@, j),
                                            !.worker = IF j = batch.len THEN "done" ELSE "items",
                                            !.work = @ \cup {[what |-> "generate",
                                                              thread |-> "pool"]}]
             /\ modelsLoaded' = (modelsLoaded \/ (batch.used = "gpt2" /\ r.loaded))
    /\ UNCHANGED <<loaders, pool, filt, version, env, phase, ctorRaised, generators, loading, loadingComplete, ret>>

\* the generate_false_statements_async task of pair i finishes
BatchTaskDone(i) ==
    /\ batch.stage = "running"
    /\ batch.path = "fallback"
    /\ i \in 1..batch.len
    /\ ~batch.items[i].done
    /\ \E o \in BatchOracles(batch.used, modelsLoaded, i) :
         \E r \in {GenerateOne(version, generators, modelsLoaded, batch.kind,
                               Partial(i), Full(i), batch.n, o)} :
             /\ batch' = [batch EXCEPT !.items[i] = ItemRecord(r, o), !.order = Append(@, i),
                                       !.work = @ \cup {[what |-> "generate",
                                                         thread |-> "pool"]}]
             /\ modelsLoaded' = (modelsLoaded \/ (batch.used = "gpt2" /\ r.loaded))
    /\ UNCHANGED <<loaders, pool, filt, version, env, phase, ctorRaised, generators, loading, loadingComplete, ret>>

\* time passes while the call waits for the executor
Tick ==
    /\ batch.stage = "running"
    /\ Busy(batch)
    /\ batch.elapsed + TickSecs <= WaitLimit(version, batch)
    /\ batch' = [batch EXCEPT !.elapsed = @ + TickSecs]
    /\ UNCHANGED <<loaders, pool, filt, version, env, phase, ctorRaised, generators, modelsLoaded, loading,
                   loadingComplete, ret>>

\* asyncio.TimeoutError from wait_for: the deadline comes before the batch
\* task is done; the call returns placeholders and the thread goes on
BatchTimeout ==
    /\ batch.stage = "running"
    /\ batch.path = "native"
    /\ Busy(batch)
    /\ batch.elapsed + TickSecs > BatchTimeoutSecs(version, batch.len)
    /\ \E b \in {[batch EXCEPT !.stage = "abandoned",
                               !.elapsed = BatchTimeoutSecs(version, batch.len)]} :
           /\ batch' = b
           /\ ret' = BatchRet(b, EmptyResults(b.len), "timeout")
    /\ UNCHANGED <<loaders, pool, filt, version, env, phase, ctorRaised, generators, modelsLoaded, loading,
                   loadingComplete>>

\* the awaited task or gather is done and generate_batch_async returns
BatchReturn ==
    /\ batch.stage = "running"
    /\ ~Busy(batch)
    /\ ret' = IF batch.path = "fallback"
              THEN BatchRet(batch, GatherResults(batch.items, batch.order), "fallback")
              ELSE IF batch.worker = "done" THEN BatchRet(batch, batch.out, "native")
              ELSE BatchRet(batch, EmptyResults(batch.len), "executor_error")
    /\ batch' = NoBatch
    /\ UNCHANGED <<loaders, pool, filt, version, env, phase, ctorRaised, generators, modelsLoaded, loading,
                   loadingComplete>>

\* the thread of a batch that timed out finishes; nobody awaits its result
BatchDiscard ==
    /\ batch.stage = "abandoned"
    /\ ~Busy(batch)
    /\ batch' = NoBatch
    /\ UNCHANGED <<loaders, pool, filt, version, env, phase, ctorRaised, generators, modelsLoaded, loading,
                   loadingComplete, ret>>

NextBatch ==
    \/ \E ok \in BOOLEAN : LoadModelsAsync(ok)
    \/ \E kind \in REQUESTABLE, k \in 1..MaxPairs, n \in 1..MaxN :
         CallGenerateBatchAsync(kind, k, n)
    \/ \E ok \in BOOLEAN : EnsureModelsLoaded(ok)
    \/ \E ok \in BOOLEAN : BatchWorkerBegin(ok)
    \/ BatchWorkItem
    \/ \E i \in 1..MaxPairs : BatchTaskDone(i)
    \/ Tick
    \/ BatchTimeout
    \/ BatchReturn
    \/ BatchDiscard
    \/ Ack

SpecBatch == InitBatch /\ [][NextBatch]_vars

(* ------------------- HTTP handlers of fastapi_app.py ------------------- *)
\* sentence j of a batch request, long enough or too short
BatchSentence(j, short) == IF short THEN ShortFull(j) ELSE Full(j)

\* one oracle per pair of a batch served by adapter g
OracleSeqs(g, ready, k) ==
    {os \in [1..k -> UNION {BatchOracles(g, ready, j) : j \in 1..k}] :
        \A j \in 1..k : os[j] \in BatchOracles(g, ready, j)}

\* generate_batch, lines 227-238: at least one sentence, at most 20, and
\* every sentence of at least four words
BatchRequestValid(sents) ==
    /\ sents # <<>>
    /\ Len(sents) <= MaxSentences
    /\ \A j \in 1..Len(sents) : WordCount(sents[j]) >= 4

\* ClaudeFalseStatementGenerator.generate_statement_objects: one
\* generate_false_statements call per pair, in order
GenerateStatementObjects(partials, fulls, n, os) ==
    [j \in 1..Len(fulls) |->
        [original_sentence |-> fulls[j], partial_sentence |-> partials[j],
         false_sentences |-> ClaudeGenerate(DefaultMaxRetries, partials[j], fulls[j],
                                            n, os[j]).value]]

\* POST /generate/batch: validation of all sentences, then the preferred
\* generator; the remote-API adapter's generate_statement_objects runs in the
\* factory's executor and its result is the response, any other adapter is
\* driven through generate_batch_async, which answers later
CallGenerateBatchHttp(shorts, n) ==
    /\ Idle
    /\ \E sents \in {[j \in 1..Len(shorts) |-> BatchSentence(j, shorts[j])]},
          first \in {GetGenerator(version, generators, "claude")} :
        \E generator_type \in {IF first # "None" THEN "claude" ELSE "gpt2"} :
         \E g \in {GetGenerator(version, generators, generator_type)},
            base \in {[NoRet EXCEPT !.op = "generate_batch_http", !.n = n,
                                    !.len = Len(shorts), !.req = [sentences |-> sents]]} :
            IF ~BatchRequestValid(sents)
            THEN /\ ret' = [base EXCEPT !.status = 400, !.path = "rejected"]
                 /\ batch' = batch
            ELSE IF g = "None"
            THEN /\ ret' = [base EXCEPT !.status = 503, !.path = "no_generator"]
                 /\ batch' = batch
            ELSE IF generator_type = "claude" /\ g = "claude"
            THEN /\ \E os \in OracleSeqs("claude", TRUE, Len(sents)) :
                      ret' = [base EXCEPT
                                !.status = 200, !.kind = generator_type, !.used = g,
                                !.reported = generator_type, !.calls = Len(sents),
                                !.path = "objects",
                                !.value = Only({[j \in 1..Len(objs) |-> objs[j].false_sentences] :
                                    objs \in {GenerateStatementObjects(
                                                  [j \in 1..Len(sents) |-> DerivePartial(sents[j])],
                                                  sents, n, os)}})]
                 /\ batch' = batch
            ELSE /\ batch' = [NoBatch EXCEPT !.stage = "ensure", !.kind = generator_type,
                                             !.used = g, !.n = n, !.len = Len(sents),
                                             !.items = [i \in 1..Len(sents) |-> PendingItem],
                                             !.http = TRUE, !.ready0 = modelsLoaded]
                 /\ ret' = ret
    /\ UNCHANGED <<loaders, version, env, phase, ctorRaised, generators, modelsLoaded, loading,
                   loadingComplete, pool, filt>>

\* GET /health: one flag per generator kind
HealthCheck(ver, gens, ready) ==
    [claude |-> GetGenerator(ver, gens, "claude") # "None",
     gpt2 |-> GetGenerator(ver, gens, "gpt2") = "gpt2" /\ ready]

CallHealthCheck ==
    /\ Idle
    /\ ret' = [NoRet EXCEPT !.op = "health", !.status = 200,
                            !.health = HealthCheck(version, generators, modelsLoaded)]
    /\ UNCHANGED <<loaders, version, env, phase, ctorRaised, generators, modelsLoaded, loading,
                   loadingComplete, batch, pool, filt>>

\* texts a QA request carries: how many characters, and how many of its
\* sentences process_full_text picks (five words or more, a number or a
\* company name)
QaTexts ==
    {[chars |-> 0, facts |-> 0], [chars |-> MinTextChars - 1, facts |-> 0],
     [chars |-> MinTextChars, facts |-> 0]}
    \cup {[chars |-> MinQaChars + 20 * m, facts |-> m] : m \in 0..MaxPairs}

\* the "correct" marks of the answers of one question in the remote API's
\* JSON: the asked-for shape, two marked, none marked, no answers at all
QaAnswerMarks ==
    {<<TRUE, FALSE, FALSE>>, <<FALSE, FALSE, TRUE>>, <<TRUE, TRUE, FALSE>>,
     <<FALSE, FALSE, FALSE>>, <<>>}

\* what the remote endpoint does for a QA prompt
ClaudeQaOracles ==
    {[fails |-> 0, resp |-> "json", questions |-> qs] :
        qs \in SeqsUpTo(QaAnswerMarks, MaxN)}
    \cup {[fails |-> f, resp |-> r, questions |-> <<>>] :
        f \in {0, MaxTries}, r \in {"nocontent", "notjson", "noquestions"}}

\* ClaudeFalseStatementGenerator.generate_qa_from_text_async: every failure
\* gives a result without questions; the questions of a parsed response are
\* returned as they came
ClaudeQa(text, o) ==
    IF text.chars < MinQaChars THEN [questions |-> <<>>, path |-> "too_short"]
    ELSE IF CallClaudeApi(DefaultMaxRetries, o.fails).raised
    THEN [questions |-> <<>>, path |-> "retries_exhausted"]
    ELSE IF o.resp = "nocontent" THEN [questions |-> <<>>, path |-> "no_content"]
    ELSE IF o.resp \in {"notjson", "noquestions"}
    THEN [questions |-> <<>>, path |-> "parse_error"]
    ELSE [questions |-> o.questions, path |-> "parsed"]

\* the marks of a question of the local adapter: choices are the original
\* sentence and the false ones, correct_answer is index 0
LocalQuestion(false_sentences) ==
    <<TRUE>> \o [k \in 1..Len(false_sentences) |-> FALSE]

\* generate_qa_from_text: one question per picked sentence that got false
\* statements from generate_statements_batch
LocalQa(text, os) ==
    [questions |->
        Only({ [k \in 1..Len(kept) |-> LocalQuestion(kept[k])] :
               kept \in {SelectSeq([j \in 1..text.facts |->
                                      LocalBatchItem(TRUE, j, DefaultNumStatements,
                                                     os[j]).value],
                                   LAMBDA v : v # <<>>)} }),
     path |-> "local"]

\* POST /generate/qa: the text must have ten characters, the preferred
\* generator answers, its dictionary is the response
CallGenerateQa(text) ==
    /\ Idle
    /\ \E first \in {GetGenerator(version, generators, "claude")} :
        \E generator_type \in {IF first # "None" THEN "claude" ELSE "gpt2"} :
         \E g \in {GetGenerator(version, generators, generator_type)},
            base \in {[NoRet EXCEPT !.op = "generate_qa", !.req = text]} :
            IF text.chars < MinTextChars
            THEN ret' = [base EXCEPT !.status = 400, !.path = "rejected"]
            ELSE IF g = "None"
            THEN ret' = [base EXCEPT !.status = 503, !.path = "no_generator"]
            ELSE IF g = "claude"
            THEN \E o \in ClaudeQaOracles :
                   \E qa \in {ClaudeQa(text, o)} :
                     ret' = [base EXCEPT !.status = 200, !.kind = generator_type,
                                         !.used = g, !.reported = generator_type,
                                         !.questions = qa.questions, !.path = qa.path]
            ELSE /\ modelsLoaded
                 /\ \E os \in OracleSeqs("gpt2", TRUE, text.facts) :
                     \E qa \in {LocalQa(text, os)} :
                       ret' = [base EXCEPT !.status = 200, !.kind = generator_type,
                                           !.used = g, !.reported = generator_type,
                                           !.questions = qa.questions, !.path = qa.path]
    /\ UNCHANGED <<loaders, version, env, phase, ctorRaised, generators, modelsLoaded, loading,
                   loadingComplete, batch, pool, filt>>

\* the application of server/fastapi_app.py over its factory
InitHttp ==
    /\ InitBatch
    /\ version = 1

NextHttp ==
    \/ \E n \in 0..MaxN \cup {MaxCount + 1} :
         \E full \in FullSentences(1), partial \in PartialSentences(1) :
            CallGenerateStatements(full, partial, 1, n)
    \/ \E shorts \in SeqsUpTo(BOOLEAN, MaxPairs), n \in 1..MaxN :
         CallGenerateBatchHttp(shorts, n)
    \/ CallHealthCheck
    \/ \E text \in QaTexts : CallGenerateQa(text)
    \/ \E ok \in BOOLEAN : EnsureModelsLoaded(ok)
    \/ \E ok \in BOOLEAN : BatchWorkerBegin(ok)
    \/ BatchWorkItem
    \/ Tick
    \/ BatchTimeout
    \/ BatchReturn
    \/ BatchDiscard
    \/ Ack

SpecHttp == InitHttp /\ [][NextHttp]_vars

(* ------------------- worker pool, QA calls and shutdown ---------------- *)
\* the tasks of the factory's pool that have not finished
Unfinished(tasks) == {t \in 1..Len(tasks) : tasks[t].state \in {"queued", "running"}}

Running(tasks) == {t \in 1..Len(tasks) : tasks[t].state = "running"}

\* loop.run_in_executor(self.executor, ...): the executor refuses new work
\* once it is shut down, otherwise the task joins its queue
SubmitToPool(p, op, timed) ==
    IF p.shutdown THEN [p EXCEPT !.refused = TRUE]
    ELSE [p EXCEPT !.tasks = Append(@, [op |-> op, timed |-> timed, state |-> "queued"])]

\* the event-loop thread is free to run a handler
LoopFree == pool.loopCall = "none" /\ pool.stack = <<>>

PoolUp == phase = "up" /\ ~ctorRaised

\* the adapter a POST /generate/batch or POST /generate/qa request resolves
\* to: get_generator('claude'), then get_generator('gpt2')
PreferredGenerator(ver, gens) ==
    IF GetGenerator(ver, gens, "claude") # "None" THEN GetGenerator(ver, gens, "claude")
    ELSE GetGenerator(ver, gens, "gpt2")

\* POST /generate/statements, validation passed: one task in the factory's pool
HandleGenerateStatements ==
    /\ PoolUp /\ LoopFree
    /\ Len(pool.tasks) < MaxTasks
    /\ pool' = SubmitToPool(pool, "single", FALSE)
    /\ UNCHANGED <<loaders, version, env, phase, ctorRaised, generators, modelsLoaded, loading,
                   loadingComplete, ret, batch, filt>>

\* POST /generate/batch, validation passed: generate_statement_objects of the
\* remote-API adapter in the factory's pool, or generate_batch_async, whose
\* pool task is awaited under a timeout
HandleGenerateBatch ==
    /\ PoolUp /\ LoopFree
    /\ Len(pool.tasks) < MaxTasks
    /\ PreferredGenerator(version, generators) # "None"
    /\ \/ /\ "claude" \in generators
          /\ pool' = SubmitToPool(pool, "objects", FALSE)
       \/ /\ "claude" \notin generators
          /\ modelsLoaded
          /\ pool' = SubmitToPool(pool, "batch", TRUE)
    /\ UNCHANGED <<loaders, version, env, phase, ctorRaised, generators, modelsLoaded, loading,
                   loadingComplete, ret, batch, filt>>

\* asyncio.wait_for gives up on a batch task: a task still queued is
\* cancelled, a running one keeps its worker until it finishes
BatchTaskCancelled(t) ==
    /\ PoolUp /\ LoopFree
    /\ t \in 1..Len(pool.tasks)
    /\ pool.tasks[t].timed /\ pool.tasks[t].state = "queued"
    /\ pool' = [pool EXCEPT !.tasks[t].state = "cancelled"]
    /\ UNCHANGED <<loaders, version, env, phase, ctorRaised, generators, modelsLoaded, loading,
                   loadingComplete, ret, batch, filt>>

\* a worker thread of the factory's pool takes the oldest queued task
PoolTaskStart(t) ==
    /\ t \in 1..Len(pool.tasks)
    /\ pool.tasks[t].state = "queued"
    /\ \A u \in 1..(t - 1) : pool.tasks[u].state # "queued"
    /\ Cardinality(Running(pool.tasks)) < PoolSize
    /\ pool' = [pool EXCEPT !.tasks[t].state = "running"]
    /\ UNCHANGED <<loaders, version, env, phase, ctorRaised, generators, modelsLoaded, loading,
                   loadingComplete, ret, batch, filt>>

PoolTaskDone(t) ==
    /\ t \in 1..Len(pool.tasks)
    /\ pool.tasks[t].state = "running"
    /\ pool' = [pool EXCEPT !.tasks[t].state = "done"]
    /\ UNCHANGED <<loaders, version, env, phase, ctorRaised, generators, modelsLoaded, loading,
                   loadingComplete, ret, batch, filt>>

\* POST /generate/qa served by the remote-API adapter: generate_qa_from_text_async
\* calls _call_claude_api itself, on the event-loop thread
HandleQaClaude ==
    /\ PoolUp /\ LoopFree
    /\ PreferredGenerator(version, generators) = "claude"
    /\ pool' = [pool EXCEPT !.loopCall = "claude_qa"]
    /\ UNCHANGED <<loaders, version, env, phase, ctorRaised, generators, modelsLoaded, loading,
                   loadingComplete, ret, batch, filt>>

\* POST /generate/qa served by the local adapter, models loaded:
\* generate_qa_from_text runs in the adapter's own executor (self._executor)
HandleQaLocal ==
    /\ PoolUp /\ LoopFree
    /\ PreferredGenerator(version, generators) = "gpt2"
    /\ modelsLoaded
    /\ pool.adapterRunning < MaxQa
    /\ pool' = [pool EXCEPT !.adapterRunning = @ + 1]
    /\ UNCHANGED <<loaders, version, env, phase, ctorRaised, generators, modelsLoaded, loading,
                   loadingComplete, ret, batch, filt>>

\* a batch or QA request served by the local adapter finds the models neither
\* loaded nor loading: _ensure_models_loaded calls _load_models on the
\* event-loop thread; once loaded, the request goes on as above
HandleEnsureLoad ==
    /\ PoolUp /\ LoopFree
    /\ PreferredGenerator(version, generators) = "gpt2"
    /\ ~modelsLoaded /\ ~loading
    /\ pool' = [pool EXCEPT !.loopCall = "load"]
    /\ loading' = TRUE
    /\ UNCHANGED <<loaders, version, env, phase, ctorRaised, generators, modelsLoaded,
                   loadingComplete, ret, batch, filt>>

\* the blocking call on the event-loop thread returns (ok: it succeeded)
LoopCallDone(ok) ==
    /\ pool.loopCall # "none"
    /\ pool' = [pool EXCEPT !.loopCall = "none"]
    /\ IF pool.loopCall = "load"
       THEN /\ modelsLoaded' = ok
            /\ loading' = FALSE
            /\ loadingComplete' = TRUE
       ELSE UNCHANGED <<modelsLoaded, loading, loadingComplete>>
    /\ UNCHANGED <<loaders, version, env, phase, ctorRaised, generators, ret, batch, filt>>

AdapterTaskDone ==
    /\ pool.adapterRunning > 0
    /\ pool' = [pool EXCEPT !.adapterRunning = @ - 1]
    /\ UNCHANGED <<loaders, version, env, phase, ctorRaised, generators, modelsLoaded, loading,
                   loadingComplete, ret, batch, filt>>

\* executor.shutdown(wait=False) would return at once
ShutdownNoWait(tasks) == TRUE

\* self.executor.shutdown(wait=True) joins the worker threads, which leave
\* only when the queue is empty: it returns once nothing is queued or running
ShutdownMayReturn(tasks) == Unfinished(tasks) = {}

SHUTDOWN_CALLERS == {"signal", "event"}

\* cleanup_resources() -> generator_factory.shutdown(), entered from the
\* signal handler (between any two steps of the main thread) or from the
\* application's shutdown event (a coroutine of the event loop)
ShutdownCall(c) ==
    /\ PoolUp
    /\ c \notin pool.returned /\ \A k \in 1..Len(pool.stack) : pool.stack[k] # c
    /\ c = "event" => LoopFree
    /\ pool' = [pool EXCEPT !.shutdown = TRUE,
                            !.stack = Append(@, c),
                            !.pending = IF pool.shutdown THEN @
                                        ELSE Cardinality(Unfinished(pool.tasks))]
    /\ UNCHANGED <<loaders, version, env, phase, ctorRaised, generators, modelsLoaded, loading,
                   loadingComplete, ret, batch, filt>>

\* the innermost shutdown() call returns
ShutdownReturn ==
    /\ pool.stack # <<>>
    /\ ShutdownMayReturn(pool.tasks)
    /\ pool' = [pool EXCEPT !.stack = SubSeq(@, 1, Len(@) - 1),
                            !.returned = @ \cup {pool.stack[Len(pool.stack)]}]
    /\ UNCHANGED <<loaders, version, env, phase, ctorRaised, generators, modelsLoaded, loading,
                   loadingComplete, ret, batch, filt>>

\* every shutdown() call that was made has returned
ShutdownOver == pool.shutdown /\ pool.stack = <<>>

\* loop.run_in_executor(self.executor, ...) once the executor is shut down:
\* submit raises RuntimeError (cannot schedule new futures after shutdown)
RefusedByExecutor ==
    [raised |-> TRUE, value |-> <<>>, loaded |-> FALSE, path |-> "executor_shutdown",
     timedOut |-> FALSE, attempts |-> 0, used |-> "None"]

\* await factory.generate_false_statements_async(kind, partial, full, n)
\* after shutdown: nothing stands between run_in_executor and the caller
CallGenerateOneAsyncDown(kind, i, n) ==
    /\ PoolUp /\ LoopFree /\ ShutdownOver
    /\ ret.op = "none"
    /\ pool' = SubmitToPool(pool, "single", FALSE)
    /\ ret' = Returned("generate_one_async", kind, i, n, RefusedByExecutor, "None",
                       DefaultMaxRetries, 0, 0)
    /\ UNCHANGED <<loaders, version, env, phase, ctorRaised, generators, modelsLoaded, loading,
                   loadingComplete, batch, filt>>

\* await factory.generate_batch_async(kind, partials, fulls, n) for k pairs
\* after shutdown: the readiness check still runs; then run_in_executor
\* raises inside the try of the batch path, or every task of the per-pair path
\* raises into gather(return_exceptions=True)
CallGenerateBatchAsyncDown(kind, k, n, ok) ==
    /\ PoolUp /\ LoopFree /\ ShutdownOver
    /\ ret.op = "none"
    /\ \E g \in {GetGenerator(version, generators, kind)} :
         /\ IF g = "gpt2" /\ ~modelsLoaded /\ ~loading
            THEN /\ modelsLoaded' = ok
                 /\ loading' = FALSE
                 /\ loadingComplete' = TRUE
            ELSE /\ ok
                 /\ UNCHANGED <<modelsLoaded, loading, loadingComplete>>
         /\ pool' = IF g = "None" THEN pool ELSE SubmitToPool(pool, "batch", TRUE)
         /\ ret' = [NoRet EXCEPT !.op = "generate_batch_async", !.kind = kind, !.used = g,
                                 !.n = n, !.len = k, !.value = EmptyResults(k),
                                 !.path = IF g = "None" THEN "no_generator"
                                          ELSE IF env.hasBatch THEN "executor_error"
                                          ELSE "fallback"]
    /\ UNCHANGED <<loaders, version, env, phase, ctorRaised, generators, batch, filt>>

NextPool ==
    \/ \E kind \in REQUESTABLE : CallGenerateOneAsyncDown(kind, 1, 1)
    \/ \E kind \in REQUESTABLE, k \in 1..MaxPairs, ok \in BOOLEAN :
         CallGenerateBatchAsyncDown(kind, k, 1, ok)
    \/ Ack
    \/ \E ok \in BOOLEAN : LoadModelsAsync(ok)
    \/ HandleGenerateStatements
    \/ HandleGenerateBatch
    \/ \E t \in 1..MaxTasks : BatchTaskCancelled(t)
    \/ \E t \in 1..MaxTasks : PoolTaskStart(t)
    \/ \E t \in 1..MaxTasks : PoolTaskDone(t)
    \/ HandleQaClaude
    \/ HandleQaLocal
    \/ HandleEnsureLoad
    \/ \E ok \in BOOLEAN : LoopCallDone(ok)
    \/ AdapterTaskDone
    \/ \E c \in SHUTDOWN_CALLERS : ShutdownCall(c)
    \/ ShutdownReturn

SpecPool == InitBatch /\ [][NextPool]_vars

(* --------------------------- Candidate Filter -------------------------- *)
\* sentences the pipeline may hand to the filter for pair i: similar at
\* 0.6, 0.7, 0.45, at the two ends of the band (0.75, 0.3), unrelated (0.1),
\* one at 0.6 that spaCy finds no verb in, and the original sentence itself
FilterTexts(i) ==
    { Full(i), Cand(i, "mid"), Cand(i, "near"), Cand(i, "far"), Cand(i, "edge"),
      Cand(i, "floor"), Cand(i, "junk"), NoVerbCand(i) }

\* threshold arguments explored: the default 0.75, and 1.0
Thresholds == {Threshold, 100}

\* a loaded local adapter, and the arguments its filter is going to be
\* called with
InitFilter ==
    /\ version = 1
    /\ env \in {e \in Envs(1) : e.gpt2Ok /\ ~e.apiKey}
    /\ phase = "up"
    /\ \E made \in {Constructed(version, env)} :
           /\ ctorRaised = made.raised
           /\ generators = made.kinds
           /\ modelsLoaded = made.ready
           /\ loading = made.loading
           /\ loadingComplete = made.complete
    /\ ret = NoRet
    /\ batch = NoBatch
    /\ pool = NoPool
    /\ loaders = NoLoaders
    /\ \E cands \in SeqsUpTo(FilterTexts(1), MaxCand), th \in Thresholds, m \in 1..MaxN :
           filt = [NoFilt EXCEPT !.original = Full(1), !.candidates = cands,
                                 !.threshold = th, !.max_results = m]

\* the last two runs, oldest first
LastTwo(runs) == IF Len(runs) <= 2 THEN runs ELSE SubSeq(runs, Len(runs) - 1, Len(runs))

\* self._filter_sentences(original, candidates, threshold, max_results) while
\* the models fail as fault says
RunFilter(fault) ==
    /\ modelsLoaded
    /\ \E r \in {FilterOutcomeCached(filt.original, filt.candidates, filt.threshold,
                                     filt.max_results, fault, filt.cache)} :
         filt' = [filt EXCEPT
                    !.runs = LastTwo(Append(@, [fault |-> fault, value |-> r.value,
                                                path |-> r.path,
                                                cleaned |-> r.cleaned])),
                    !.cache = CacheAfter(filt.candidates, fault, filt.cache)]
    /\ UNCHANGED <<loaders, version, env, phase, ctorRaised, generators, modelsLoaded, loading,
                   loadingComplete, ret, batch, pool>>

\* cleanup(): self._is_valid_sentence.cache_clear()
Cleanup ==
    /\ modelsLoaded
    /\ filt.cache # EmptyCache
    /\ filt' = [filt EXCEPT !.cache = EmptyCache]
    /\ UNCHANGED <<loaders, version, env, phase, ctorRaised, generators, modelsLoaded, loading,
                   loadingComplete, ret, batch, pool>>

NextFilter ==
    \/ \E fault \in FAULTS : RunFilter(fault)
    \/ Cleanup

SpecFilter == InitFilter /\ [][NextFilter]_vars

(* ----------------- the local-model adapter on its own ------------------ *)
\* ImprovedFalseStatementGenerator(load_async=b) has returned: with
\* load_async the load is a task still to run, without it the models are
\* loaded (a failed synchronous load raises and leaves no instance)
InitAdapter ==
    /\ version = 1
    /\ env \in {[gpt2Ok |-> TRUE, smallOk |-> FALSE, apiKey |-> FALSE,
                 loadAsync |-> b, hasBatch |-> TRUE] : b \in BOOLEAN}
    /\ phase = "up"
    /\ ctorRaised = FALSE
    /\ generators = {"gpt2"}
    /\ modelsLoaded = ~env.loadAsync
    /\ loading = env.loadAsync
    /\ loadingComplete = ~env.loadAsync
    /\ ret = NoRet
    /\ batch = NoBatch
    /\ pool = NoPool
    /\ filt = NoFilt
    /\ loaders = NoLoaders

\* await adapter._ensure_models_loaded(): ready -> True; a load in progress
\* is waited for and never doubled; otherwise _load_models runs in the
\* caller, and its exception leaves through the finally block
CallEnsureModelsLoaded(ok) ==
    /\ Idle
    /\ "gpt2" \in generators
    /\ IF ~modelsLoaded /\ ~loading
       THEN /\ modelsLoaded' = ok
            /\ loading' = FALSE
            /\ loadingComplete' = TRUE
            /\ ret' = [NoRet EXCEPT !.op = "ensure_models_loaded", !.kind = "gpt2",
                                    !.used = "gpt2", !.raised = ~ok,
                                    !.path = IF ok THEN "loaded" ELSE "load_failed"]
       ELSE /\ ok
            /\ ret' = [NoRet EXCEPT !.op = "ensure_models_loaded", !.kind = "gpt2",
                                    !.used = "gpt2",
                                    !.path = IF modelsLoaded THEN "ready" ELSE "waited"]
            /\ UNCHANGED <<modelsLoaded, loading, loadingComplete>>
    /\ UNCHANGED <<loaders, version, env, phase, ctorRaised, generators, batch, pool, filt>>

\* adapter.generate_statements_batch(partials, fulls, n) called directly: it
\* loads the models when they are not ready (a failing load raises), then
\* handles the pairs in order
CallStatementsBatch(k, n, ok) ==
    /\ Idle
    /\ "gpt2" \in generators
    /\ modelsLoaded => ok
    /\ IF ~ok
       THEN /\ ret' = [NoRet EXCEPT !.op = "statements_batch", !.kind = "gpt2",
                                    !.used = "gpt2", !.n = n, !.len = k, !.raised = TRUE,
                                    !.path = "load_failed"]
            /\ modelsLoaded' = modelsLoaded
       ELSE /\ \E os \in OracleSeqs("gpt2", TRUE, k) :
                 ret' = [NoRet EXCEPT !.op = "statements_batch", !.kind = "gpt2",
                                      !.used = "gpt2", !.n = n, !.len = k,
                                      !.path = "native",
                                      !.value = [j \in 1..k |->
                                                   LocalBatchItem(TRUE, j, n, os[j]).value]]
            /\ modelsLoaded' = TRUE
    /\ UNCHANGED <<loaders, version, env, phase, ctorRaised, generators, loading, loadingComplete,
                   batch, pool, filt>>

NextAdapter ==
    \/ \E ok \in BOOLEAN : LoadModelsAsync(ok)
    \/ \E ok \in BOOLEAN : CallEnsureModelsLoaded(ok)
    \/ \E n \in 1..MaxN : CallLocalAdapter(1, n)
    \/ \E k \in 1..MaxPairs, n \in 1..MaxN, ok \in BOOLEAN : CallStatementsBatch(k, n, ok)
    \/ Ack

SpecAdapter == InitAdapter /\ [][NextAdapter]_vars

(* ------------- the local-model adapter's load, step by step ------------ *)
\* ImprovedFalseStatementGenerator(load_async=b) as __init__ leaves it: the
\* synchronous load succeeded, or the load task has been created
InitLoad ==
    /\ version = 1
    /\ env \in {[gpt2Ok |-> TRUE, smallOk |-> FALSE, apiKey |-> FALSE,
                 loadAsync |-> b, hasBatch |-> TRUE] : b \in BOOLEAN}
    /\ phase = "up"
    /\ ctorRaised = FALSE
    /\ generators = {"gpt2"}
    /\ modelsLoaded = ~env.loadAsync
    /\ loading = env.loadAsync
    /\ loadingComplete = ~env.loadAsync
    /\ ret = NoRet
    /\ batch = NoBatch
    /\ pool = NoPool
    /\ filt = NoFilt
    /\ loaders = [NoLoaders EXCEPT !.bg = IF env.loadAsync THEN "created" ELSE "none"]

\* the executions of _load_models in progress
LoadsInProgress(l) ==
    (IF l.bg = "loading" THEN {"bg"} ELSE {})
        \cup {t \in COROUTINES \cup WORKERS : l.pc[t] = "load"}

\* a coroutine is inside a synchronous call: the event loop runs nothing else
LoopBlocked(l) == \E e \in COROUTINES : l.pc[e] = "load"

\* _load_models_async starts: _load_models goes to the adapter's executor
AsyncLoadBegin ==
    /\ loaders.bg = "created"
    /\ ~LoopBlocked(loaders)
    /\ loaders' = [loaders EXCEPT !.bg = "loading"]
    /\ UNCHANGED <<version, env, phase, ctorRaised, generators, modelsLoaded, loading,
                   loadingComplete, ret, batch, pool, filt>>

\* _load_models returns or raises in the executor thread
AsyncLoadEnd(ok) ==
    /\ loaders.bg = "loading"
    /\ modelsLoaded' = (modelsLoaded \/ ok)
    /\ loaders' = [loaders EXCEPT !.bg = "finally"]
    /\ UNCHANGED <<version, env, phase, ctorRaised, generators, loading,
                   loadingComplete, ret, batch, pool, filt>>

\* the finally block of _load_models_async, back on the event loop
AsyncLoadFinally ==
    /\ loaders.bg = "finally"
    /\ ~LoopBlocked(loaders)
    /\ loading' = FALSE
    /\ loadingComplete' = TRUE
    /\ loaders' = [loaders EXCEPT !.bg = "done"]
    /\ UNCHANGED <<version, env, phase, ctorRaised, generators, modelsLoaded,
                   ret, batch, pool, filt>>

\* lines 216-228 of _ensure_models_loaded, entered by coroutine e: under
\* _loading_lock, an instance neither loading nor ready sets _loading and
\* calls _load_models in the coroutine itself
EnsureSyncLoad(e) ==
    IF ~modelsLoaded /\ loaders.lock = "none" /\ ~loading
    THEN /\ loading' = TRUE
         /\ loaders' = [loaders EXCEPT !.pc[e] = "load", !.lock = e, !.slept[e] = 0]
    ELSE /\ loading' = loading
         /\ loaders' = [loaders EXCEPT !.pc[e] = "idle", !.slept[e] = 0]

\* await _ensure_models_loaded() up to its first await: ready returns True,
\* a load in progress is waited for, anything else loads synchronously
EnsureBegin(e) ==
    /\ loaders.pc[e] = "idle"
    /\ ~LoopBlocked(loaders)
    /\ ~modelsLoaded
    /\ IF loading
       THEN /\ loading' = loading
            /\ loaders' = [loaders EXCEPT !.pc[e] = IF loadingComplete THEN "idle"
                                                    ELSE "sleep"]
       ELSE EnsureSyncLoad(e)
    /\ UNCHANGED <<version, env, phase, ctorRaised, generators, modelsLoaded,
                   loadingComplete, ret, batch, pool, filt>>

\* asyncio.sleep(1) of the wait loop is over: the next round looks at the
\* event; after the last round the coroutine goes on to lines 216-228
EnsureWake(e) ==
    /\ loaders.pc[e] = "sleep"
    /\ ~LoopBlocked(loaders)
    /\ IF loaders.slept[e] + 1 < WaitRounds
       THEN /\ loading' = loading
            /\ loaders' = IF loadingComplete
                          THEN [loaders EXCEPT !.pc[e] = "idle", !.slept[e] = 0]
                          ELSE [loaders EXCEPT !.slept[e] = @ + 1]
       ELSE EnsureSyncLoad(e)
    /\ UNCHANGED <<version, env, phase, ctorRaised, generators, modelsLoaded,
                   loadingComplete, ret, batch, pool, filt>>

\* the synchronous _load_models of coroutine e returns or raises; the finally
\* block clears _loading and sets the event, the lock is released
EnsureLoadEnd(e, ok) ==
    /\ loaders.pc[e] = "load"
    /\ modelsLoaded' = (modelsLoaded \/ ok)
    /\ loading' = FALSE
    /\ loadingComplete' = TRUE
    /\ loaders' = [loaders EXCEPT !.pc[e] = "idle", !.lock = "none"]
    /\ UNCHANGED <<version, env, phase, ctorRaised, generators, ret, batch, pool, filt>>

\* generate_false_statements or generate_statements_batch starts in executor
\* thread w: if not self._is_ready(): self._load_models()
WorkerBegin(w) ==
    /\ loaders.pc[w] = "idle"
    /\ loaders' = [loaders EXCEPT !.pc[w] = IF modelsLoaded THEN "generate" ELSE "load"]
    /\ UNCHANGED <<version, env, phase, ctorRaised, generators, modelsLoaded, loading,
                   loadingComplete, ret, batch, pool, filt>>

\* the load of thread w returns, or raises out of the call
WorkerLoadEnd(w, ok) ==
    /\ loaders.pc[w] = "load"
    /\ modelsLoaded' = (modelsLoaded \/ ok)
    /\ loaders' = [loaders EXCEPT !.pc[w] = IF ok THEN "generate" ELSE "idle"]
    /\ UNCHANGED <<version, env, phase, ctorRaised, generators, loading,
                   loadingComplete, ret, batch, pool, filt>>

\* the call of thread w returns
WorkerEnd(w) ==
    /\ loaders.pc[w] = "generate"
    /\ loaders' = [loaders EXCEPT !.pc[w] = "idle"]
    /\ UNCHANGED <<version, env, phase, ctorRaised, generators, modelsLoaded, loading,
                   loadingComplete, ret, batch, pool, filt>>

NextLoad ==
    \/ AsyncLoadBegin
    \/ \E ok \in BOOLEAN : AsyncLoadEnd(ok)
    \/ AsyncLoadFinally
    \/ \E e \in COROUTINES : EnsureBegin(e)
    \/ \E e \in COROUTINES : EnsureWake(e)
    \/ \E e \in COROUTINES, ok \in BOOLEAN : EnsureLoadEnd(e, ok)
    \/ \E w \in WORKERS : WorkerBegin(w)
    \/ \E w \in WORKERS, ok \in BOOLEAN : WorkerLoadEnd(w, ok)
    \/ \E w \in WORKERS : WorkerEnd(w)

SpecLoad == InitLoad /\ [][NextLoad]_vars

(* ------------------------------- claims -------------------------------- *)
ListOps == {"generate_one", "local_adapter", "claude_adapter", "generate_statements"}

\* C1: every list of false statements returned for a request with count n,
\* by an adapter called directly, by the factory's generate_false_statements
\* or by the HTTP handler on top of it, has at most n entries.
C1_CountBound ==
    ret.op \in ListOps => Len(ret.value) <= ret.n

\* the local adapter returned through the embedding-failure fallback and the
\* slice cut the list to the requested count
C1_Witness ==
    /\ ret.op = "local_adapter"
    /\ ret.path = "embedding_fallback"
    /\ ret.n = 1
    /\ Len(ret.value) = 1

\* C3: the factory's generate_false_statements never raises: it returns []
\* when the adapter raised and [] when no adapter is available.
C3_GenerateOneNeverRaises ==
    ret.op = "generate_one" =>
        /\ ~ret.raised
        /\ ret.path \in {"adapter_raised", "no_generator"} => ret.value = <<>>
        /\ ret.used = "None" <=> ret.path = "no_generator"

\* the local adapter had to load its models inside the call and the load failed
C3_Witness ==
    /\ ret.op = "generate_one"
    /\ ret.used = "gpt2"
    /\ ret.path = "adapter_raised"
    /\ ret.value = <<>>
    /\ ~modelsLoaded

\* C4: with no generator registered, generate_statements answers a valid
\* request with an explicit "no generator available" signal (503), never with
\* a success response.
C4_NoGeneratorSignalled ==
    (ret.op = "generate_statements" /\ generators = {} /\ ret.path # "rejected")
        => ret.status = 503

\* the fallback order the claim states: the requested kind, else claude, else gpt2
C5_Expected(gens, kind) ==
    IF kind \in gens THEN kind
    ELSE IF "claude" \in gens THEN "claude"
    ELSE IF "gpt2" \in gens THEN "gpt2"
    ELSE "None"

\* C5: get_generator returns the requested kind when it is registered, else
\* the claude adapter, else the gpt2 adapter, and nothing only when neither is
\* registered, in both versions of the factory.
C5_FallbackOrder ==
    ret.op = "get_generator" => ret.used = C5_Expected(generators, ret.kind)

\* the kinds whose initialisation succeeded
C6_Succeeded(ver, e) ==
    {k \in KINDS :
        \/ k = "gpt2" /\ (e.loadAsync \/ e.gpt2Ok \/ (ver = 2 /\ e.smallOk))
        \/ k = "claude" /\ e.apiKey}

\* C6: constructing the factory never raises, and afterwards the registry
\* holds exactly the kinds whose initialisation succeeded, whatever happened
\* to the other kind.
C6_ConstructionNeverRaises ==
    phase = "up" => ~ctorRaised /\ generators = C6_Succeeded(version, env)

\* the local adapter failed to initialise and the remote adapter is registered
C6_Witness ==
    /\ phase = "up"
    /\ ~env.gpt2Ok /\ ~env.smallOk /\ env.apiKey
    /\ generators = {"claude"}

\* C10: a call of the remote adapter makes at most max_retries HTTP attempts,
\* repeats a request only after a failed one, and returns a list, empty on
\* failure, without raising.
C10_BoundedRetries ==
    ret.op = "claude_adapter" =>
        /\ ret.attempts <= ret.retries
        /\ ret.attempts <= ret.fails + 1
        /\ ~ret.raised
        /\ ret.path # "parsed" => ret.value = <<>>

\* a statement about pair i carries the subject of pair i
AboutPair(st, i) == \E t \in 1..Len(st) : st[t] = W(i)

C7_ItemFailureIsolated ==
    (/\ ret.op = "generate_batch"
     /\ ret.path \notin {"no_generator", "timeout"}
     /\ \E i \in 1..ret.len : ret.items[i].failed)
    => /\ Len(ret.value) = ret.len
       /\ \A i \in 1..ret.len :
             /\ ret.items[i].done
             /\ ret.value[i] = IF ret.items[i].failed THEN <<>> ELSE ret.items[i].value

\* the adapter's own batch method: the first pair's requests all failed, the
\* second pair's entry is populated
C7_Witness ==
    /\ ret.op = "generate_batch"
    /\ ret.path = "native"
    /\ ret.len = 2
    /\ ret.items[1].failed /\ ret.value[1] = <<>>
    /\ ~ret.items[2].failed /\ ret.value[2] # <<>>

\* C8: on every dispatch path the call waits for at most the batch timeout,
\* and a call ended by the timeout returns one empty list per pair.
C8_OverallTimeout ==
    /\ batch.stage = "running" => batch.elapsed <= BatchTimeoutSecs(version, batch.len)
    /\ ret.op = "generate_batch" =>
          /\ ret.elapsed <= BatchTimeoutSecs(version, ret.len)
          /\ ret.path = "timeout" => ret.value = EmptyResults(ret.len)

\* C9: when exactly one item of a batch runs into its time limit and the
\* others succeed, the result has one entry per pair, the timed-out item's
\* entry is [] and the other entries are the populated results of their items.
C9_OneItemTimesOut ==
    (/\ ret.op = "generate_batch"
     /\ \E i \in 1..ret.len :
           /\ ret.items[i].slow
           /\ \A j \in (1..ret.len) \ {i} :
                 /\ ret.items[j].done /\ ~ret.items[j].slow /\ ~ret.items[j].failed
                 /\ ret.items[j].value # <<>>)
    => /\ Len(ret.value) = ret.len
       /\ \A i \in 1..ret.len :
             ret.value[i] = IF ret.items[i].slow THEN <<>> ELSE ret.items[i].value

\* the blocking model and adapter calls executing now: in the factory's pool,
\* in the local adapter's own executor, and on the event-loop thread
BlockingCalls(p) ==
    Cardinality(Running(p.tasks)) + p.adapterRunning
        + (IF p.loopCall = "none" THEN 0 ELSE 1)

\* C11: once a call of shutdown() has returned, no task submitted to the
\* factory's worker pool is still queued or running: each has run to its end
\* (or had been given up by its own caller's timeout while queued), also when
\* shutdown() is called by both the signal handler and the shutdown event
C11_ShutdownDrains ==
    pool.returned # {} =>
        \A t \in 1..Len(pool.tasks) : pool.tasks[t].state \in {"done", "cancelled"}

\* both callers returned, and the first call found more unfinished tasks
\* than the pool has workers (some running, some queued), all done now
C11_Witness ==
    /\ pool.returned = SHUTDOWN_CALLERS
    /\ pool.pending > PoolSize
    /\ \A t \in 1..Len(pool.tasks) : pool.tasks[t].state = "done"

\* C12: at every moment at most N blocking model or adapter calls execute
C12_AtMostN ==
    BlockingCalls(pool) <= PoolSize

\* every statement the run returned is strictly inside the band
RunInBand(run) ==
    \A k \in 1..Len(run.value) :
        /\ LowSim < SimPct(filt.original, run.value[k])
        /\ SimPct(filt.original, run.value[k]) < filt.threshold

\* C13 as stated: on every return path of the filter, every returned
\* statement has a similarity s to the original with low < s < threshold
C13_BandOnEveryPath ==
    \A j \in 1..Len(filt.runs) : RunInBand(filt.runs[j])

\* C13 as amended: on the return path that ranks by similarity every returned
\* statement has low < s < threshold; the fallback path is the only other
\* path that returns statements
C13_BandWhenRanked ==
    \A j \in 1..Len(filt.runs) :
        /\ filt.runs[j].path = "ranked" => RunInBand(filt.runs[j])
        /\ filt.runs[j].value # <<>> => filt.runs[j].path \in {"ranked", "embedding_fallback"}

\* a ranked run that returned a statement although a candidate sat on an end
\* of the band, and a run that lost one candidate's similarity
C13_Witness ==
    /\ Len(filt.runs) = 2
    /\ filt.runs[1].path = "ranked" /\ filt.runs[1].fault = "none"
    /\ filt.runs[1].value # <<>>
    /\ \E k \in 1..Len(filt.candidates) :
           SimPct(filt.original, filt.candidates[k]) \in {LowSim, filt.threshold}
    /\ filt.runs[2].path = "ranked" /\ filt.runs[2].fault = "cosine"
    /\ Len(filt.runs[2].value) < Len(filt.runs[1].value)

\* C14: two runs of the filter on the same candidates, original, thresholds
\* and model answers return the same statements in the same order
C14_SameRunSameResult ==
    (Len(filt.runs) = 2 /\ filt.runs[1].fault = filt.runs[2].fault)
        => filt.runs[1].value = filt.runs[2].value

\* the load state of the local adapter, read off its fields
LoadState ==
    IF modelsLoaded THEN "Ready"
    ELSE IF loading THEN "Loading"
    ELSE IF loadingComplete THEN "Failed"
    ELSE "Uninitialized"

LoadMoves ==
    {<<"Uninitialized", "Loading">>, <<"Loading", "Ready">>, <<"Loading", "Failed">>}

\* C15: the load state only moves Uninitialized -> Loading -> Ready or
\* Loading -> Failed; from Failed no operation starts a load or reaches Ready
C15_FailedIsTerminal ==
    [][LoadState' # LoadState => <<LoadState, LoadState'>> \in LoadMoves]_vars

HttpOps == {"generate_statements", "generate_batch_http", "generate_qa"}

\* C16: in every successful response of generate_statements and
\* generate_batch, generator_used names the kind of the adapter that produced
\* the false statements
C16_GeneratorUsedIsProducer ==
    (/\ ret.op \in {"generate_statements", "generate_batch_http"}
     /\ ret.status = 200
     /\ ret.used # "None")
        => ret.reported = ret.used

\* C17: the health flag of a kind is true only if an adapter of that kind is
\* registered and ready
C17_HealthFlagsPerKind ==
    ret.op = "health" =>
        /\ ret.health.claude => "claude" \in generators
        /\ ret.health.gpt2 => ("gpt2" \in generators /\ modelsLoaded)

\* the request breaks a validation rule
InvalidRequest(r) ==
    \/ /\ r.op = "generate_statements"
       /\ \/ r.req.full = <<>>
          \/ Len(WordTokenize(r.req.full)) < 4
          \/ r.n < 1 \/ r.n > MaxCount
    \/ /\ r.op = "generate_batch_http"
       /\ \/ r.req.sentences = <<>>
          \/ \E j \in 1..Len(r.req.sentences) : WordCount(r.req.sentences[j]) < 4

\* C18: a request that fails validation gets a client error and no adapter
\* generation call is made for it, whether or not a partial sentence came
\* with a too-short full sentence
C18_InvalidRejectedBeforeGeneration ==
    (ret.op \in HttpOps /\ InvalidRequest(ret)) => (ret.status = 400 /\ ret.calls = 0)

\* C20: in every successful generate_qa response every question has exactly
\* one answer marked correct
C20_OneCorrectAnswer ==
    (ret.op = "generate_qa" /\ ret.status = 200) =>
        \A q \in 1..Len(ret.questions) :
            Cardinality({a \in 1..Len(ret.questions[q]) : ret.questions[q][a]}) = 1

\* what generate_false_statements_async returns for pair 1 when the factory
\* is as the batch call found it and the adapter behaves as it did for the
\* batch: the load failed (no pair was handled) or the pair's oracle applied
SingleForBatch(r) ==
    IF r.items[1].done
    THEN GenerateOne(version, generators, r.req.ready0, r.kind, Partial(1), Full(1),
                     r.n, r.items[1].oracle).value
    ELSE GenerateOne(version, generators, r.req.ready0, r.kind, Partial(1), Full(1), r.n,
                     [load |-> "fail", gen |-> "ok", raws |-> <<>>, fault |-> "none",
                      slow |-> FALSE, fails |-> MaxTries, resp |-> "text",
                      lines |-> <<>>, timeouts |-> FALSE]).value

\* C19: generate_batch_async on a batch of one pair returns [r], r being what
\* generate_false_statements_async returns for that pair, count and adapter
\* outcome, unless the batch ran into its timeout
C19_BatchOfOneIsSingle ==
    (ret.op = "generate_batch" /\ ret.len = 1 /\ ret.path # "timeout")
        => ret.value = <<SingleForBatch(ret)>>

\* a batch of one served by the adapter's own batch method returned statements
C19_Witness ==
    /\ ret.op = "generate_batch" /\ ret.len = 1 /\ ret.path = "native"
    /\ ret.value = <<SingleForBatch(ret)>>
    /\ ret.value[1] # <<>>

\* C21: no false statement returned for a request is the request's original
\* sentence, by either adapter and on every return path of the filter
C21_NeverTheOriginal ==
    ret.op \in {"generate_one", "local_adapter", "claude_adapter"}
        => \A k \in 1..Len(ret.value) : ret.value[k] # Full(ret.pair)

\* C22: the list returned by a run of the filter has no two equal statements
C22_NoDuplicates ==
    \A j \in 1..Len(filt.runs) :
        \A a, b \in 1..Len(filt.runs[j].value) :
            a # b => filt.runs[j].value[a] # filt.runs[j].value[b]

\* the similarity the filter computed for a cleaned candidate of a run
RunSim(run, c) == CalculateSimilarity(filt.original, c, run.fault)

\* its distance from the target
RunDist(run, c) == Abs(TargetSim - RunSim(run, c))

\* how often text t occurs in sequence q
Occurrences(q, t) == Cardinality({k \in 1..Len(q) : q[k] = t})

\* the cleaned candidates of a run whose similarity is inside the band
Survivors(run) ==
    SelectSeq(run.cleaned,
              LAMBDA c : LowSim < RunSim(run, c) /\ RunSim(run, c) < filt.threshold)

\* C23: a run that ranks returns survivors of the band only, as many as
\* there are up to max_results, in nondecreasing distance from the target,
\* and no survivor left out is strictly closer than a returned one
C23_RankedByTarget ==
    \A j \in 1..Len(filt.runs) :
        filt.runs[j].path = "ranked" =>
            \E run \in {filt.runs[j]} : \E surv \in {Survivors(run)} :
                /\ Len(run.value) = Min(Len(surv), filt.max_results)
                /\ \A k \in 1..Len(run.value) :
                       Occurrences(run.value, run.value[k]) <= Occurrences(surv, run.value[k])
                /\ \A k \in 1..(Len(run.value) - 1) :
                       RunDist(run, run.value[k]) <= RunDist(run, run.value[k + 1])
                /\ \A m \in 1..Len(surv) :
                       Occurrences(run.value, surv[m]) < Occurrences(surv, surv[m])
                           => \A k \in 1..Len(run.value) :
                                  RunDist(run, run.value[k]) <= RunDist(run, surv[m])

\* two survivors, the later one closer to the target, and room for one: the
\* later one is returned
C23_Witness ==
    \E j \in 1..Len(filt.runs) :
        /\ filt.runs[j].path = "ranked" /\ filt.runs[j].fault = "none"
        /\ filt.max_results = 1
        /\ Len(Survivors(filt.runs[j])) = 2
        /\ RunDist(filt.runs[j], Survivors(filt.runs[j])[2])
               < RunDist(filt.runs[j], Survivors(filt.runs[j])[1])
        /\ filt.runs[j].value = <<Survivors(filt.runs[j])[2]>>

\* an embedding computation failed during the run: the batched encode call,
\* or the similarity of one of its cleaned candidates
EmbeddingFailed(run) ==
    \/ run.fault = "encode"
    \/ /\ run.fault = "cosine"
       /\ \E k \in 1..Len(run.cleaned) :
              RunSim(run, run.cleaned[k]) # SimPct(filt.original, run.cleaned[k])

\* the first max_results structurally valid candidates, in input order
FirstValid(run) == SubSeq(run.cleaned, 1, Min(Len(run.cleaned), filt.max_results))

\* C24 as stated: after any embedding failure with a valid candidate the
\* run returns the first max_results valid candidates in input order
C24_FallbackOnAnyFailure ==
    \A j \in 1..Len(filt.runs) :
        (EmbeddingFailed(filt.runs[j]) /\ filt.runs[j].cleaned # <<>>)
            => filt.runs[j].value = FirstValid(filt.runs[j])

\* C24 as amended: a failed encode call gives the first max_results valid
\* candidates in input order; a failed similarity of one candidate only
\* drops that candidate, the run still ranks and returns the others
C24_FallbackOnEncodeFailure ==
    \A j \in 1..Len(filt.runs) : \E run \in {filt.runs[j]} :
        /\ (run.fault = "encode" /\ run.cleaned # <<>>)
               => run.path = "embedding_fallback" /\ run.value = FirstValid(run)
        /\ (run.fault = "cosine" /\ run.cleaned # <<>>)
               => /\ run.path = "ranked"
                  /\ \A k \in 1..Len(run.value) :
                         RunSim(run, run.value[k]) = SimPct(filt.original, run.value[k])
                  /\ Len(run.value) = Min(Len(Survivors(run)), filt.max_results)

\* a failed encode call with two valid candidates and room for one, then a
\* failed similarity of one candidate while the other one is returned
C24_Witness ==
    /\ Len(filt.runs) = 2
    /\ filt.runs[1].fault = "encode" /\ Len(filt.runs[1].cleaned) = 2
    /\ filt.max_results = 1
    /\ filt.runs[1].value = <<filt.runs[1].cleaned[1]>>
    /\ filt.runs[2].fault = "cosine" /\ EmbeddingFailed(filt.runs[2])
    /\ Len(filt.runs[2].value) = 1
    /\ filt.runs[2].value # filt.runs[1].value

\* the response lines that count as statements: stripped, not empty, not a
\* number, the first n of them
ParsedLines(r) == Take(ParseLines(r.lines), r.n)

\* C25: every statement the remote-API adapter returns begins with the
\* partial sentence; a (stripped) response line that starts with the partial
\* sentence is returned as it is, any other with the partial sentence in front
C25_BeginsWithPartial ==
    ret.op = "claude_adapter" =>
        /\ \A k \in 1..Len(ret.value) : IsPrefix(Partial(ret.pair), ret.value[k])
        /\ ret.path = "parsed" =>
               \E parsed \in {ParsedLines(ret)} :
                   /\ Len(ret.value) = Len(parsed)
                   /\ \A k \in 1..Len(parsed) :
                          ret.value[k] = IF IsPrefix(Partial(ret.pair), parsed[k])
                                         THEN parsed[k]
                                         ELSE Partial(ret.pair) \o parsed[k]

\* a response of two statements, the first with the partial sentence and the
\* second without it
C25_Witness ==
    /\ ret.op = "claude_adapter" /\ ret.path = "parsed"
    /\ Len(ret.value) = 2
    /\ IsPrefix(Partial(ret.pair), ParsedLines(ret)[1])
    /\ ~IsPrefix(Partial(ret.pair), ParsedLines(ret)[2])
    /\ ret.value[1] = ParsedLines(ret)[1]
    /\ ret.value[2] # ParsedLines(ret)[2]

\* C26: generate_batch_async and the generate_false_statements_async tasks
\* it starts run every model call and every synchronous model load of the
\* request on a thread of the worker pool, none on the event-loop thread
C26_NoBlockingOnLoop ==
    \A w \in batch.work : w.thread = "pool"

\* C27: the timeout after which a batch call gives up is 30 seconds per pair
\* and at least 60 seconds, max(60, 30 * item_count), in both versions
C27_TimeoutFormula ==
    (ret.op = "generate_batch" /\ ret.path = "timeout")
        => ret.elapsed = Max(60, 30 * ret.len)

\* C28: at most one execution of _load_models is in progress for the
\* adapter instance, whatever the background load, the readiness check and
\* the generation calls on worker threads do
C28_OneLoadAtATime ==
    Cardinality(LoadsInProgress(loaders)) <= 1

\* C29: whenever the loading-complete event is set, the loading flag is false
C29_CompleteImpliesNotLoading ==
    loadingComplete => ~loading

\* C30: a call of the factory's async generation operations made after
\* shutdown() has returned does not raise: generate_false_statements_async
\* returns [] and generate_batch_async one empty list per pair
C30_EmptyAfterShutdown ==
    /\ ret.op = "generate_one_async" => ~ret.raised /\ ret.value = <<>>
    /\ ret.op = "generate_batch_async" => ~ret.raised /\ ret.value = EmptyResults(ret.len)

====
